---- MODULE Spec2Model ----
(***************************************************************************)
(* Reactor state machines of cpp/route_guide/route_guide_callback.cpp:     *)
(* the callback server (GetFeature, Lister, Recorder, Chatter with the     *)
(* shared note log received_notes_ guarded by mu_) and the callback client *)
(* (Reader, Recorder with its hold and alarm, Chatter), driven by a        *)
(* transport that follows the contract of README.md lines 539-577.         *)
(*                                                                         *)
(* One behaviour runs calls of one RPC shape (kind): the only state shared *)
(* between calls is the note log of RouteChat, so RouteChat runs several   *)
(* concurrent sessions and every other shape runs one call.                *)
(***************************************************************************)
EXTENDS Integers, Sequences, FiniteSets, TLC

\* ---------------------------------------------------------------- bounds
MaxNotes == 3         \* inbound notes read successfully, over all sessions
MaxFeatures == 2      \* length of the feature database
MaxPoints == 2        \* messages a RecordRoute server / a client reads successfully

\* ------------------------------------------------------- program constants
PointsToSend == 10    \* Recorder::points_remaining_
MaxArgs == 4          \* arguments on the command line, after the program name
MaxHello == 3         \* requests the Greeter service serves
MaxCallData == 3      \* CallData objects the completion-queue server allocates
DefaultServerPort == 50051         \* CliParams_::server_port
DefaultMaintenancePort == 50052    \* CliParams_::maintenance_port

\* ---------------------------------------------------------------- domains
Coords == {0, 1}
Points == [latitude : Coords, longitude : Coords]
Names == {"", "A"}
Features == [name : Names, location : Points]
\* Two concurrent RouteChat sessions: the note log is the only state that calls
\* share, and what one session sees of it is decided by one other session's appends.
Calls == {1, 2}
Kinds == {"GetFeature", "Lister", "SRecorder", "SChatter",
          "CReader", "CRecorder", "CChatter"}
ServerKinds == {"GetFeature", "Lister", "SRecorder", "SChatter"}
\* The unary calls of the clients: RouteGuideClient::GetOneFeature, GreeterClient::SayHello
UnaryClientKinds == {"CGetOneFeature", "CSayHello"}
\* main of route_guide_callback.cpp: the command line, and the run in mode CLIENT
MainKinds == {"CLI", "CMain"}
\* The completion-queue server (ServerImpl)
AsyncKinds == {"CQ"}
\* The calls whose caller waits for the completion reaction
FacadeKinds == (Kinds \ ServerKinds) \cup UnaryClientKinds
NoMsg == [none |-> TRUE]
Running == -1         \* main has not returned

MakePoint(latitude, longitude) == [latitude |-> latitude, longitude |-> longitude]

MakeRouteNote(message, latitude, longitude) ==
    [message |-> message, location |-> MakePoint(latitude, longitude)]

\* notes_ of the client Chatter
ClientNotes ==
    << MakeRouteNote("First message", 0, 0), MakeRouteNote("Second message", 0, 1),
       MakeRouteNote("Third message", 1, 0), MakeRouteNote("Fourth message", 0, 0) >>

SeqsUpTo(S, n) == UNION { [1..k -> S] : k \in 0..n }

Min(a, b) == IF a <= b THEN a ELSE b
Max(a, b) == IF a >= b THEN a ELSE b

VARIABLES
    kind,             \* the RPC shape the calls of this run have
    feature_list_,    \* RouteGuideImpl::feature_list_ / RouteGuideClient::feature_list_
    rectangle,        \* the request of ListFeatures
    calls,            \* per call: the transport's state and the reactor's fields
    places,           \* the locations the clients of RouteChat send notes from
    received_notes_,  \* RouteGuideImpl::received_notes_
    mu_,              \* RouteGuideImpl::mu_: 0 when free, else the call holding it
    callData,         \* the CallData objects of ServerImpl, in order of allocation
    cq_,              \* ServerImpl::cq_: the events that Next can return
    handleRpcs,       \* ServerImpl::HandleRpcs: idle -> loop -> aborted
    i_                \* GreeterServiceImpl::i

\* The state of the completion-queue server.
async == << callData, cq_, handleRpcs >>

vars == << kind, feature_list_, rectangle, places, calls, received_notes_, mu_, async, i_ >>

ActiveCalls == IF kind \in {"SChatter", "Greeter"} THEN Calls ELSE {1}

\* ------------------------------------------------------------ a new call
NewCall ==
    [ phase |-> "new",          \* new -> active -> done (OnDone has run)
      \* transport
      rd |-> 0, wr |-> 0, wd |-> 0,        \* outstanding reads, writes, writes-done
      wmsg |-> NoMsg,                      \* message buffer of the outstanding write
      fin |-> 0,                           \* Finish calls
      writesDone |-> 0,                    \* StartWritesDone calls
      addHolds |-> 0, removeHolds |-> 0,
      ndone |-> 0,                         \* OnDone reactions
      nread |-> 0,                         \* reads completed with ok = true
      cancelled |-> FALSE,                 \* server: the call was cancelled
      ended |-> FALSE,                     \* client: the terminal status has arrived
      srvStatus |-> "none",
      holdsAtStatus |-> -1,                \* client: holds present when the status arrived
      viol |-> {},                         \* contract violations of README 545-577
      rfailed |-> FALSE,                   \* an OnReadDone(false) was handled
      wfailed |-> FALSE,                   \* an OnWriteDone(false) was handled
      rstart |-> 0, wstart |-> 0,          \* StartRead, StartWrite calls
      rdone |-> 0, wdone |-> 0,            \* OnReadDone, OnWriteDone reactions
      sent |-> << >>,                      \* server: messages passed to StartWrite
      \* Lister
      left_ |-> 0, right_ |-> 0, top_ |-> 0, bottom_ |-> 0, next_feature_ |-> 1,
      \* server Recorder
      point_ |-> MakePoint(0, 0), previous_ |-> MakePoint(0, 0),
      point_count_ |-> 0, feature_count_ |-> 0, distance_ |-> << >>,
      summary |-> NoMsg,
      \* server Chatter
      pc |-> "run", note_ |-> NoMsg, to_send_notes_ |-> << >>, notes_iterator_ |-> 1,
      inbound |-> << >>,                   \* notes (Chatter), points (Recorder) read so far
      batchStart |-> << >>,                \* Len(sent) at each successful OnReadDone
      snapLen |-> << >>,                   \* Len(received_notes_) at each snapshot
      appended |-> 0,                      \* notes of this session pushed to the log
      \* GetFeature
      feature |-> NoMsg,
      \* client reactors
      points_remaining_ |-> PointsToSend, alarm |-> 0,
      status_ |-> "none", done_ |-> FALSE,
      stats_ |-> NoMsg,                    \* client Recorder: the response record
      result |-> "unset",                  \* GetOneFeature: bool result
      reply |-> NoMsg,                     \* SayHello: HelloReply reply
      \* the thread that calls Await / waits on the condition variable
      await |-> "idle",                    \* idle -> waiting -> returned
      ret |-> "none",                      \* what the wait returned to its caller
      awaitAtDone |-> "none",              \* await when notify_one() was called
      stats |-> NoMsg,                     \* client Recorder: the caller's *stats
      \* Greeter service
      reg |-> 0,                           \* the value of i a handler has loaded
      replies |-> << >>,                   \* the replies the handlers on this thread sent
      \* main
      argv |-> << >>,                      \* argv[1 .. argc - 1]
      cliState |-> "none",                 \* what ParseCommandLine returned
      cli_params |-> NoMsg,                \* main's CliParams after the call
      step |-> 0,                          \* statements of main that have run
      out |-> << >>,                       \* lines written to std::cout
      failures |-> 0,                      \* RPCs that ended with a non-OK status
      exit |-> Running ]                   \* what main returned

\* ----------------------------------------------- operation-initiating methods
\* A use of the reactor after Finish or after OnDone (README 551, 567).
Misuse(s) ==
    (IF s.fin > 0 THEN {"op_after_finish"} ELSE {})
    \cup (IF s.phase = "done" THEN {"op_after_done"} ELSE {})

\* An operation started by a reaction that is inside a critical section of mu_.
UnderLock(s) == IF s.pc \in {"R_crit", "W_crit"} THEN {"op_under_lock"} ELSE {}

StartRead(s) ==
    [s EXCEPT !.rd = @ + 1, !.rstart = @ + 1,
              !.viol = @ \cup Misuse(s) \cup UnderLock(s)
                         \cup (IF s.rd > 0 THEN {"two_reads"} ELSE {})
                         \cup (IF s.rfailed THEN {"read_after_failed_read"} ELSE {})]

StartWrite(s, m) ==
    [s EXCEPT !.wr = @ + 1, !.wmsg = m, !.wstart = @ + 1,
              !.viol = @ \cup Misuse(s) \cup UnderLock(s)
                         \cup (IF s.wr > 0 THEN {"two_writes"} ELSE {})
                         \cup (IF s.wfailed THEN {"write_after_failed_write"} ELSE {})
                         \cup (IF s.writesDone > 0
                               THEN {"write_after_writes_done"} ELSE {})]

StartWritesDone(s) ==
    [s EXCEPT !.wd = @ + 1, !.writesDone = @ + 1,
              !.viol = @ \cup Misuse(s)
                         \cup (IF s.writesDone > 0 THEN {"two_writes_done"} ELSE {})
                         \cup (IF s.wr > 0 THEN {"writes_done_during_write"} ELSE {})]

Finish(s, status) ==
    [s EXCEPT !.fin = @ + 1, !.srvStatus = status,
              !.viol = @ \cup UnderLock(s)
                         \cup (IF s.fin > 0 THEN {"two_finishes"} ELSE {})
                         \cup (IF s.phase = "done" THEN {"op_after_done"} ELSE {})
                         \cup (IF s.rd > 0 \/ s.wr > 0
                               THEN {"finish_with_outstanding"} ELSE {})]

AddHold(s) == [s EXCEPT !.addHolds = @ + 1]

RemoveHold(s) ==
    [s EXCEPT !.removeHolds = @ + 1,
              !.viol = @ \cup (IF s.removeHolds >= s.addHolds
                               THEN {"hold_underflow"} ELSE {})]

Holds(s) == s.addHolds - s.removeHolds

\* The transport hands a completed operation back to the reactor.
ReadCompleted(s, ok) ==
    [s EXCEPT !.rd = @ - 1, !.rdone = @ + 1,
              !.nread = IF ok THEN @ + 1 ELSE @, !.rfailed = @ \/ ~ok]
WriteCompleted(s) == [s EXCEPT !.wr = @ - 1, !.wdone = @ + 1, !.wmsg = NoMsg]
\* The ok that OnWriteDone is invoked with: false indicates an RPC failure.
WriteOutcome(s, ok) == [s EXCEPT !.wfailed = @ \/ ~ok]

\* History of the messages a server reactor passed to StartWrite.
Sent(s, m) == [s EXCEPT !.sent = Append(@, m)]

\* --------------------------------------------------------------- helpers
RECURSIVE FirstAt(_, _, _)
\* The name of the first feature of list, from index i on, located at point.
FirstAt(point, list, i) ==
    IF i > Len(list) THEN ""
    ELSE IF list[i].location.latitude = point.latitude
            /\ list[i].location.longitude = point.longitude
         THEN list[i].name
         ELSE FirstAt(point, list, i + 1)

GetFeatureName(point, list) == FirstAt(point, list, 1)

\* ------------------------------------------------------ server: GetFeature
GetFeature_handler(s, point) ==
    Finish([s EXCEPT !.phase = "active",
                     !.feature = [name |-> GetFeatureName(point, feature_list_),
                                  location |-> point]], "OK")

GetFeature(c) ==
    /\ kind = "GetFeature"
    /\ calls[c].phase = "new"
    /\ \E point \in Points : calls' = [calls EXCEPT ![c] = GetFeature_handler(calls[c], point)]
    /\ UNCHANGED << kind, feature_list_, rectangle, places, received_notes_, mu_, async, i_ >>

\* ---------------------------------------------------------- server: Lister
InRectangle(s, f) ==
    /\ f.location.longitude >= s.left_ /\ f.location.longitude <= s.right_
    /\ f.location.latitude >= s.bottom_ /\ f.location.latitude <= s.top_

RECURSIVE NextMatch(_, _)
\* The index at which the while loop of NextWrite stops: the first feature in the
\* rectangle from index i on, or one past the end of the list.
NextMatch(s, i) ==
    IF i > Len(feature_list_) THEN i
    ELSE IF InRectangle(s, feature_list_[i]) THEN i
    ELSE NextMatch(s, i + 1)

\* NextWrite without the return after StartWrite.
Lister_NextWrite_NoReturn(s) ==
    LET j == NextMatch(s, s.next_feature_) IN
    IF j <= Len(feature_list_)
    THEN Finish(Sent(StartWrite([s EXCEPT !.next_feature_ = j + 1], feature_list_[j]),
                     feature_list_[j]), "OK")
    ELSE Finish([s EXCEPT !.next_feature_ = j], "OK")

\* NextWrite with a second ++next_feature_ after StartWrite.
Lister_NextWrite_SkipNext(s) ==
    LET j == NextMatch(s, s.next_feature_) IN
    IF j <= Len(feature_list_)
    THEN Sent(StartWrite([s EXCEPT !.next_feature_ = j + 2], feature_list_[j]),
              feature_list_[j])
    ELSE Finish([s EXCEPT !.next_feature_ = j], "OK")

Lister_NextWrite(s) ==
    LET j == NextMatch(s, s.next_feature_) IN
    IF j <= Len(feature_list_)
    THEN Sent(StartWrite([s EXCEPT !.next_feature_ = j + 1], feature_list_[j]),
              feature_list_[j])
    ELSE Finish([s EXCEPT !.next_feature_ = j], "OK")

\* The constructor taking lo for left_/bottom_ and hi for right_/top_ as they come.
Lister_ctor_NoMinMax(s, rect) ==
    Lister_NextWrite(
        [s EXCEPT !.phase = "active",
                  !.left_ = rect.lo.longitude, !.right_ = rect.hi.longitude,
                  !.top_ = rect.hi.latitude, !.bottom_ = rect.lo.latitude])

\* The constructor without its call of NextWrite.
Lister_ctor_NoNextWrite(s, rect) ==
    [s EXCEPT !.phase = "active",
              !.left_ = Min(rect.lo.longitude, rect.hi.longitude),
              !.right_ = Max(rect.lo.longitude, rect.hi.longitude),
              !.top_ = Max(rect.lo.latitude, rect.hi.latitude),
              !.bottom_ = Min(rect.lo.latitude, rect.hi.latitude)]

Lister_ctor(s, rect) ==
    Lister_NextWrite(
        [s EXCEPT !.phase = "active",
                  !.left_ = Min(rect.lo.longitude, rect.hi.longitude),
                  !.right_ = Max(rect.lo.longitude, rect.hi.longitude),
                  !.top_ = Max(rect.lo.latitude, rect.hi.latitude),
                  !.bottom_ = Min(rect.lo.latitude, rect.hi.latitude)])

ListFeatures(c) ==
    /\ kind = "Lister"
    /\ calls[c].phase = "new"
    /\ calls' = [calls EXCEPT ![c] = Lister_ctor(calls[c], rectangle)]
    /\ UNCHANGED << kind, feature_list_, rectangle, places, received_notes_, mu_, async, i_ >>

\* OnWriteDone(bool /*ok*/): the reactor does not look at ok. A write of a
\* cancelled call completes with ok = false.
Lister_OnWriteDone(c) ==
    /\ kind = "Lister"
    /\ calls[c].phase = "active"
    /\ calls[c].wr > 0
    /\ calls' = [calls EXCEPT ![c] =
                    Lister_NextWrite(WriteOutcome(WriteCompleted(calls[c]),
                                                  ~calls[c].cancelled))]
    /\ UNCHANGED << kind, feature_list_, rectangle, places, received_notes_, mu_, async, i_ >>

\* ------------------------------------- blocking server: ListFeatures
\* left, right, top, bottom of route_guide.cpp ListFeatures.
Blocking_Bounds(rect) ==
    [left |-> Min(rect.lo.longitude, rect.hi.longitude),
     right |-> Max(rect.lo.longitude, rect.hi.longitude),
     top |-> Max(rect.lo.latitude, rect.hi.latitude),
     bottom |-> Min(rect.lo.latitude, rect.hi.latitude)]

RECURSIVE Blocking_Write(_, _, _)
\* The for loop over feature_list_ from index i on: the features passed to Write.
Blocking_Write(b, list, i) ==
    IF i > Len(list) THEN << >>
    ELSE (IF /\ list[i].location.longitude >= b.left
             /\ list[i].location.longitude <= b.right
             /\ list[i].location.latitude >= b.bottom
             /\ list[i].location.latitude <= b.top
          THEN << list[i] >> ELSE << >>)
         \o Blocking_Write(b, list, i + 1)

Blocking_ListFeatures(rect, list) ==
    [written |-> Blocking_Write(Blocking_Bounds(rect), list, 1), status |-> "OK"]

\* -------------------------------------- blocking server: RecordRoute
RECURSIVE Blocking_Read(_, _, _, _)
\* The while loop over reader->Read(&point), from the i-th point on; v holds
\* point_count, feature_count, distance (the legs added) and previous.
Blocking_Read(points, list, i, v) ==
    IF i > Len(points) THEN v
    ELSE Blocking_Read(points, list, i + 1,
            [point_count |-> v.point_count + 1,
             feature_count |->
                 IF GetFeatureName(points[i], list) # ""
                 THEN v.feature_count + 1 ELSE v.feature_count,
             distance |->
                 IF v.point_count + 1 # 1
                 THEN Append(v.distance, << v.previous, points[i] >>) ELSE v.distance,
             previous |-> points[i]])

Blocking_RecordRoute(points, list) ==
    LET v == Blocking_Read(points, list, 1,
                 [point_count |-> 0, feature_count |-> 0, distance |-> << >>,
                  previous |-> MakePoint(0, 0)])
    IN [point_count |-> v.point_count, feature_count |-> v.feature_count,
        distance |-> v.distance]

\* -------------------------------------------------------- server: Recorder
SRecorder_ctor(s) == StartRead([s EXCEPT !.phase = "active"])

RecordRoute(c) ==
    /\ kind = "SRecorder"
    /\ calls[c].phase = "new"
    /\ calls' = [calls EXCEPT ![c] = SRecorder_ctor(calls[c])]
    /\ UNCHANGED << kind, feature_list_, rectangle, places, received_notes_, mu_, async, i_ >>

\* OnReadDone with StartRead after the if, on both branches.
SRecorder_OnReadDone_ReadOn(s, ok) ==
    IF ok
    THEN StartRead(
           [s EXCEPT !.point_count_ = @ + 1,
                     !.feature_count_ =
                         IF GetFeatureName(s.point_, feature_list_) # "" THEN @ + 1 ELSE @,
                     !.distance_ =
                         IF s.point_count_ + 1 # 1
                         THEN Append(@, << s.previous_, s.point_ >>) ELSE @,
                     !.previous_ = s.point_])
    ELSE StartRead(Finish([s EXCEPT !.summary = [point_count |-> s.point_count_,
                                                 feature_count |-> s.feature_count_,
                                                 distance |-> s.distance_]], "OK"))

\* distance_ is kept as the sequence of legs whose GetDistance was added to it.
SRecorder_OnReadDone(s, ok) ==
    IF ok
    THEN StartRead(
           [s EXCEPT !.point_count_ = @ + 1,
                     !.feature_count_ =
                         IF GetFeatureName(s.point_, feature_list_) # "" THEN @ + 1 ELSE @,
                     !.distance_ =
                         IF s.point_count_ + 1 # 1
                         THEN Append(@, << s.previous_, s.point_ >>) ELSE @,
                     !.previous_ = s.point_])
    ELSE Finish([s EXCEPT !.summary = [point_count |-> s.point_count_,
                                       feature_count |-> s.feature_count_,
                                       distance |-> s.distance_]], "OK")

\* A read completes: with a message while the client still sends, without one once
\* the client has half-closed or the call is cancelled.
SRecorder_ReadDone(c) ==
    /\ kind = "SRecorder"
    /\ calls[c].phase = "active"
    /\ calls[c].rd > 0
    /\ \/ /\ ~calls[c].cancelled
          /\ calls[c].nread < MaxPoints
          /\ \E p \in Points :
                calls' = [calls EXCEPT ![c] =
                    SRecorder_OnReadDone(
                        [ReadCompleted(calls[c], TRUE)
                            EXCEPT !.point_ = p, !.inbound = Append(@, p)], TRUE)]
       \/ calls' = [calls EXCEPT ![c] =
                    SRecorder_OnReadDone(ReadCompleted(calls[c], FALSE), FALSE)]
    /\ UNCHANGED << kind, feature_list_, rectangle, places, received_notes_, mu_, async, i_ >>

\* --------------------------------------------------------- server: Chatter
\* The constructor that also starts sending.
SChatter_ctor_ReadAndWrite(s) ==
    StartWrite(StartRead([s EXCEPT !.phase = "active"]), NoMsg)

SChatter_ctor(s) == StartRead([s EXCEPT !.phase = "active"])

\* Sessions are numbered in the order in which their calls arrive.
RouteChat(c) ==
    /\ kind = "SChatter"
    /\ calls[c].phase = "new"
    /\ \A d \in 1..(c - 1) : calls[d].phase # "new"
    /\ calls' = [calls EXCEPT ![c] = SChatter_ctor(calls[c])]
    /\ UNCHANGED << kind, feature_list_, rectangle, places, received_notes_, mu_, async, i_ >>

\* The predicate of copy_if without the comparison of the longitudes.
SameLatitude(note, note_) == note.location.latitude = note_.location.latitude

\* The predicate of copy_if: the stored note lies at the location of note_.
SameLocation(note, note_) ==
    /\ note.location.latitude = note_.location.latitude
    /\ note.location.longitude = note_.location.longitude

\* NextWrite that walks the live log instead of the copy made under the lock.
SChatter_NextWrite_LiveLog(s) ==
    LET live == SelectSeq(received_notes_, LAMBDA n : SameLocation(n, s.note_)) IN
    IF s.notes_iterator_ # Len(live) + 1
    THEN [Sent(StartWrite(s, live[s.notes_iterator_]), live[s.notes_iterator_])
            EXCEPT !.notes_iterator_ = @ + 1, !.to_send_notes_ = live, !.pc = "run"]
    ELSE [s EXCEPT !.to_send_notes_ = live, !.pc = "W_lock"]

\* NextWrite that empties to_send_notes_ as soon as its last element is being written.
SChatter_NextWrite_ClearAfterStart(s) ==
    IF s.notes_iterator_ # Len(s.to_send_notes_) + 1
    THEN LET w == [Sent(StartWrite(s, s.to_send_notes_[s.notes_iterator_]),
                        s.to_send_notes_[s.notes_iterator_])
                     EXCEPT !.notes_iterator_ = @ + 1, !.pc = "run"]
         IN  IF w.notes_iterator_ = Len(s.to_send_notes_) + 1
             THEN [w EXCEPT !.to_send_notes_ = << >>, !.notes_iterator_ = 1]
             ELSE w
    ELSE [s EXCEPT !.pc = "W_lock"]

\* NextWrite that goes on to the append once one note has been written.
SChatter_NextWrite_OneWrite(s) ==
    IF s.notes_iterator_ = 1 /\ s.to_send_notes_ # << >>
    THEN [Sent(StartWrite(s, s.to_send_notes_[1]), s.to_send_notes_[1])
            EXCEPT !.notes_iterator_ = @ + 1, !.pc = "run"]
    ELSE [s EXCEPT !.pc = "W_lock"]

\* NextWrite up to mu_->Lock(): the next write, or the wait for the lock.
SChatter_NextWrite(s) ==
    IF s.notes_iterator_ # Len(s.to_send_notes_) + 1
    THEN [Sent(StartWrite(s, s.to_send_notes_[s.notes_iterator_]),
               s.to_send_notes_[s.notes_iterator_])
            EXCEPT !.notes_iterator_ = @ + 1, !.pc = "run"]
    ELSE [s EXCEPT !.pc = "W_lock"]

\* OnReadDone(true) that starts the next read before it forwards.
SChatter_OnReadDone_ReadFirst(s, ok) ==
    IF ok
    THEN [StartRead(s) EXCEPT !.pc = "R_lock",
                              !.inbound = Append(@, s.note_),
                              !.batchStart = Append(@, Len(s.sent))]
    ELSE Finish(s, "OK")

\* OnReadDone without its else branch.
SChatter_OnReadDone_NoFinish(s, ok) ==
    IF ok
    THEN [s EXCEPT !.pc = "R_lock",
                   !.inbound = Append(@, s.note_),
                   !.batchStart = Append(@, Len(s.sent))]
    ELSE s

\* OnReadDone up to mu_->Lock(): the wait for the lock, or Finish.
SChatter_OnReadDone(s, ok) ==
    IF ok
    THEN [s EXCEPT !.pc = "R_lock",
                   !.inbound = Append(@, s.note_),
                   !.batchStart = Append(@, Len(s.sent))]
    ELSE Finish(s, "OK")

\* copy_if that stops one entry before received_notes_->end().
SChatter_Snapshot_ShortByOne(s, log) ==
    [s EXCEPT !.to_send_notes_ =
                  @ \o SelectSeq(SubSeq(log, 1, Len(log) - 1),
                                 LAMBDA n : SameLocation(n, s.note_)),
              !.snapLen = Append(@, Len(log))]

\* copy_if over a log that already holds note_.
SChatter_Snapshot_OwnNoteFirst(s, log) ==
    [s EXCEPT !.to_send_notes_ =
                  @ \o SelectSeq(Append(log, s.note_), LAMBDA n : SameLocation(n, s.note_)),
              !.snapLen = Append(@, Len(log))]

\* copy_if over the log, under the lock, appended to to_send_notes_.
SChatter_Snapshot(s, log) ==
    [s EXCEPT !.to_send_notes_ = @ \o SelectSeq(log, LAMBDA n : SameLocation(n, s.note_)),
              !.snapLen = Append(@, Len(log))]

\* OnReadDone(true) that also starts the next read at once.
SChatter_AfterSnapshot_EagerRead(s) ==
    StartRead(SChatter_NextWrite([s EXCEPT !.pc = "run", !.notes_iterator_ = 1]))

\* The rest of OnReadDone(true) after mu_->Unlock().
SChatter_AfterSnapshot(s) ==
    SChatter_NextWrite([s EXCEPT !.pc = "run", !.notes_iterator_ = 1])

\* An append that stores into the last slot of a non-empty log instead of growing it.
PushBack_Overwrite(log, s) ==
    IF log = << >> THEN << s.note_ >> ELSE [log EXCEPT ![Len(log)] = s.note_]

\* An append at the front of the log.
PushBack_Front(log, s) == << s.note_ >> \o log

\* received_notes_->push_back(note_) under the lock.
PushBack(log, s) == Append(log, s.note_)

\* NextWrite with StartRead(&note_) before mu_->Unlock().
SChatter_AfterPush_ReadThenUnlock(s) ==
    [StartRead([s EXCEPT !.appended = @ + 1]) EXCEPT !.pc = "run"]

\* The rest of NextWrite after mu_->Unlock().
SChatter_AfterPush(s) == StartRead([s EXCEPT !.pc = "run", !.appended = @ + 1])

RECURSIVE SumRead(_)
SumRead(S) ==
    IF S = {} THEN 0
    ELSE LET c == CHOOSE x \in S : TRUE IN calls[c].nread + SumRead(S \ {c})

\* The locations of the notes of the client Chatter, and those on latitude 0.
NotePoints == { ClientNotes[i].location : i \in 1..Len(ClientNotes) }
NotePointsOnEquator == { p \in NotePoints : p.latitude = 0 }

\* The note the k-th successful read of session c delivers.
InboundNotes(c, k) ==
    { [message |-> << c, k >>, location |-> p] : p \in places }

SChatter_ReadDone(c) ==
    /\ kind = "SChatter"
    /\ calls[c].phase = "active"
    /\ calls[c].rd > 0
    /\ \/ /\ ~calls[c].cancelled
          /\ SumRead(Calls) < MaxNotes
          /\ \E n \in InboundNotes(c, calls[c].nread + 1) :
                calls' = [calls EXCEPT ![c] =
                    SChatter_OnReadDone([ReadCompleted(calls[c], TRUE) EXCEPT !.note_ = n],
                                        TRUE)]
       \/ calls' = [calls EXCEPT ![c] =
                    SChatter_OnReadDone(ReadCompleted(calls[c], FALSE), FALSE)]
    /\ UNCHANGED << kind, feature_list_, rectangle, places, received_notes_, mu_, async, i_ >>

\* A Lock() that does not wait for the holder to unlock.
SChatter_Lock_NoWait(c) ==
    /\ kind = "SChatter"
    /\ calls[c].pc \in {"R_lock", "W_lock"}
    /\ mu_' = c
    /\ calls' = [calls EXCEPT ![c].pc = IF @ = "R_lock" THEN "R_crit" ELSE "W_crit"]
    /\ UNCHANGED << kind, feature_list_, rectangle, places, received_notes_, async, i_ >>

\* mu_->Lock() in OnReadDone or in NextWrite.
SChatter_Lock(c) ==
    /\ kind = "SChatter"
    /\ calls[c].pc \in {"R_lock", "W_lock"}
    /\ mu_ = 0
    /\ mu_' = c
    /\ calls' = [calls EXCEPT ![c].pc = IF @ = "R_lock" THEN "R_crit" ELSE "W_crit"]
    /\ UNCHANGED << kind, feature_list_, rectangle, places, received_notes_, async, i_ >>

\* OnReadDone from copy_if to its end.
SChatter_CopyUnlock(c) ==
    /\ kind = "SChatter"
    /\ calls[c].pc = "R_crit"
    /\ calls' = [calls EXCEPT ![c] =
                    SChatter_AfterSnapshot(SChatter_Snapshot(calls[c], received_notes_))]
    /\ mu_' = 0
    /\ UNCHANGED << kind, feature_list_, rectangle, places, received_notes_, async, i_ >>

\* NextWrite from push_back to its end.
SChatter_PushUnlock(c) ==
    /\ kind = "SChatter"
    /\ calls[c].pc = "W_crit"
    /\ received_notes_' = PushBack(received_notes_, calls[c])
    /\ calls' = [calls EXCEPT ![c] = SChatter_AfterPush(calls[c])]
    /\ mu_' = 0
    /\ UNCHANGED << kind, feature_list_, rectangle, places, async, i_ >>

\* OnWriteDone(bool /*ok*/), for a write that succeeded or failed.
SChatter_OnWriteDone(c) ==
    /\ kind = "SChatter"
    /\ calls[c].phase = "active"
    /\ calls[c].wr > 0
    /\ calls' = [calls EXCEPT ![c] =
                    SChatter_NextWrite(WriteOutcome(WriteCompleted(calls[c]),
                                                    ~calls[c].cancelled))]
    /\ UNCHANGED << kind, feature_list_, rectangle, places, received_notes_, mu_, async, i_ >>

\* ------------------------------------------------- server side of the transport
\* The call is cancelled before Finish: every later completion carries ok = false.
\* No reactor of the server overrides OnCancel.
Cancel(c) ==
    /\ kind \in ServerKinds \ {"GetFeature"}
    /\ calls[c].phase = "active"
    /\ calls[c].fin = 0
    /\ ~calls[c].cancelled
    /\ calls' = [calls EXCEPT ![c].cancelled = TRUE]
    /\ UNCHANGED << kind, feature_list_, rectangle, places, received_notes_, mu_, async, i_ >>

\* OnDone of a server reactor: delete this.
Server_OnDone_reaction(s) == [s EXCEPT !.phase = "done", !.ndone = @ + 1]

\* The library invokes OnDone once Finish was called and every operation completed.
Server_OnDone(c) ==
    /\ kind \in ServerKinds
    /\ calls[c].phase = "active"
    /\ calls[c].fin > 0
    /\ calls[c].rd = 0 /\ calls[c].wr = 0
    /\ calls[c].pc = "run"
    /\ calls' = [calls EXCEPT ![c] = Server_OnDone_reaction(calls[c])]
    /\ UNCHANGED << kind, feature_list_, rectangle, places, received_notes_, mu_, async, i_ >>

\* ---------------------------------------------------------- client: Reader
\* stub->async()->ListFeatures; StartRead; StartCall.
CReader_ctor(s) == StartRead([s EXCEPT !.phase = "active"])

\* OnReadDone that starts the next read whatever ok is.
CReader_OnReadDone_ReadOn(s, ok) == StartRead(s)

CReader_OnReadDone(s, ok) == IF ok THEN StartRead(s) ELSE s

CReader_new(c) ==
    /\ kind = "CReader"
    /\ calls[c].phase = "new"
    /\ calls' = [calls EXCEPT ![c] = CReader_ctor(calls[c])]
    /\ UNCHANGED << kind, feature_list_, rectangle, places, received_notes_, mu_, async, i_ >>

\* A read of a client completes with a message until the terminal status has
\* arrived, and without one after it.
CReader_ReadDone(c) ==
    /\ kind = "CReader"
    /\ calls[c].phase = "active"
    /\ calls[c].rd > 0
    /\ IF calls[c].ended
       THEN calls' = [calls EXCEPT ![c] =
                        CReader_OnReadDone(ReadCompleted(calls[c], FALSE), FALSE)]
       ELSE /\ calls[c].nread < MaxPoints
            /\ calls' = [calls EXCEPT ![c] =
                        CReader_OnReadDone(ReadCompleted(calls[c], TRUE), TRUE)]
    /\ UNCHANGED << kind, feature_list_, rectangle, places, received_notes_, mu_, async, i_ >>

\* -------------------------------------------------------- client: Recorder
\* NextWrite with RemoveHold after the if, on both branches.
CRecorder_NextWrite_RemoveAlways(s, i) ==
    IF s.points_remaining_ # 0
    THEN RemoveHold([StartWrite(s, feature_list_[i].location)
                        EXCEPT !.points_remaining_ = @ - 1])
    ELSE RemoveHold(StartWritesDone(s))

\* i is the draw of feature_distribution_(generator_).
CRecorder_NextWrite(s, i) ==
    IF s.points_remaining_ # 0
    THEN [StartWrite(s, feature_list_[i].location) EXCEPT !.points_remaining_ = @ - 1]
    ELSE RemoveHold(StartWritesDone(s))

\* The constructor without AddHold.
CRecorder_ctor_NoHold(s, i) == CRecorder_NextWrite([s EXCEPT !.phase = "active"], i)

\* stub->async()->RecordRoute; AddHold; NextWrite; StartCall.
CRecorder_ctor(s, i) == CRecorder_NextWrite(AddHold([s EXCEPT !.phase = "active"]), i)

\* OnWriteDone that sets the alarm and releases the hold itself.
CRecorder_OnWriteDone_Release(s) == RemoveHold([s EXCEPT !.alarm = @ + 1])

\* OnWriteDone that sleeps for the delay and then writes the next point itself.
CRecorder_OnWriteDone_Sleep(s) == CRecorder_NextWrite(s, 1)

\* alarm_.Set(now + delay, NextWrite)
CRecorder_OnWriteDone(s) == [s EXCEPT !.alarm = @ + 1]

CRecorder_new(c) ==
    /\ kind = "CRecorder"
    /\ calls[c].phase = "new"
    /\ \E i \in 1..Len(feature_list_) :
          calls' = [calls EXCEPT ![c] = CRecorder_ctor(calls[c], i)]
    /\ UNCHANGED << kind, feature_list_, rectangle, places, received_notes_, mu_, async, i_ >>

\* OnWriteDone(bool ok) does not use ok.
CRecorder_WriteDone(c) ==
    /\ kind = "CRecorder"
    /\ calls[c].wr > 0
    /\ \E ok \in BOOLEAN :
          /\ calls[c].wfailed => ~ok
          /\ calls' = [calls EXCEPT ![c] =
                CRecorder_OnWriteDone(WriteOutcome(WriteCompleted(calls[c]), ok))]
    /\ UNCHANGED << kind, feature_list_, rectangle, places, received_notes_, mu_, async, i_ >>

\* The alarm fires on a thread of its own and runs the lambda of OnWriteDone.
CRecorder_Alarm(c) ==
    /\ kind = "CRecorder"
    /\ calls[c].alarm > 0
    /\ \E i \in 1..Len(feature_list_) :
          calls' = [calls EXCEPT ![c] =
                      CRecorder_NextWrite([calls[c] EXCEPT !.alarm = @ - 1], i)]
    /\ UNCHANGED << kind, feature_list_, rectangle, places, received_notes_, mu_, async, i_ >>

\* --------------------------------------------------------- client: Chatter
\* NextWrite that ends the writes together with the last note.
CChatter_NextWrite_EarlyDone(s) ==
    IF s.notes_iterator_ # Len(ClientNotes) + 1
    THEN LET w == [StartWrite(s, ClientNotes[s.notes_iterator_])
                      EXCEPT !.notes_iterator_ = @ + 1]
         IN  IF w.notes_iterator_ = Len(ClientNotes) + 1 THEN StartWritesDone(w) ELSE w
    ELSE s

\* NextWrite that never ends the writes.
CChatter_NextWrite_NoWritesDone(s) ==
    IF s.notes_iterator_ # Len(ClientNotes) + 1
    THEN [StartWrite(s, ClientNotes[s.notes_iterator_]) EXCEPT !.notes_iterator_ = @ + 1]
    ELSE s

CChatter_NextWrite(s) ==
    IF s.notes_iterator_ # Len(ClientNotes) + 1
    THEN [StartWrite(s, ClientNotes[s.notes_iterator_]) EXCEPT !.notes_iterator_ = @ + 1]
    ELSE StartWritesDone(s)

\* stub->async()->RouteChat; NextWrite; StartRead; StartCall.
CChatter_ctor(s) == StartRead(CChatter_NextWrite([s EXCEPT !.phase = "active"]))

CChatter_OnReadDone(s, ok) == IF ok THEN StartRead(s) ELSE s

CChatter_new(c) ==
    /\ kind = "CChatter"
    /\ calls[c].phase = "new"
    /\ calls' = [calls EXCEPT ![c] = CChatter_ctor(calls[c])]
    /\ UNCHANGED << kind, feature_list_, rectangle, places, received_notes_, mu_, async, i_ >>

CChatter_WriteDone(c) ==
    /\ kind = "CChatter"
    /\ calls[c].wr > 0
    /\ \E ok \in BOOLEAN :
          /\ calls[c].wfailed => ~ok
          /\ calls' = [calls EXCEPT ![c] =
                CChatter_NextWrite(WriteOutcome(WriteCompleted(calls[c]), ok))]
    /\ UNCHANGED << kind, feature_list_, rectangle, places, received_notes_, mu_, async, i_ >>

CChatter_ReadDone(c) ==
    /\ kind = "CChatter"
    /\ calls[c].phase = "active"
    /\ calls[c].rd > 0
    /\ IF calls[c].ended
       THEN calls' = [calls EXCEPT ![c] =
                        CChatter_OnReadDone(ReadCompleted(calls[c], FALSE), FALSE)]
       ELSE /\ calls[c].nread < MaxPoints
            /\ calls' = [calls EXCEPT ![c] =
                        CChatter_OnReadDone(ReadCompleted(calls[c], TRUE), TRUE)]
    /\ UNCHANGED << kind, feature_list_, rectangle, places, received_notes_, mu_, async, i_ >>

\* ------------------------------------------------- client side of the transport
\* StartWritesDone completes; no client reactor overrides OnWritesDoneDone.
WritesDoneDone(c) ==
    /\ kind \in Kinds \ ServerKinds
    /\ calls[c].wd > 0
    /\ calls' = [calls EXCEPT ![c].wd = @ - 1]
    /\ UNCHANGED << kind, feature_list_, rectangle, places, received_notes_, mu_, async, i_ >>

\* The RouteSummary a server sends with its OK status.
ServerSummary == [point_count |-> PointsToSend]

\* The terminal status arrives: the server's Finish, or a failure of the call. The
\* library stores the response of RecordRoute in stats_ before it delivers OnDone.
RecvStatus(c) ==
    /\ kind \in Kinds \ ServerKinds
    /\ calls[c].phase = "active"
    /\ ~calls[c].ended
    /\ \E st \in {"OK", "FAILED"} :
          calls' = [calls EXCEPT ![c].ended = TRUE, ![c].srvStatus = st,
                                 ![c].holdsAtStatus = Holds(calls[c]),
                                 ![c].stats_ = IF kind = "CRecorder" /\ st = "OK"
                                               THEN ServerSummary ELSE @]
    /\ UNCHANGED << kind, feature_list_, rectangle, places, received_notes_, mu_, async, i_ >>

\* OnDone of a client reactor: status_ = s; done_ = true; cv_.notify_one().
Client_OnDone_reaction(s) ==
    [s EXCEPT !.phase = "done", !.ndone = @ + 1, !.status_ = s.srvStatus, !.done_ = TRUE,
              !.awaitAtDone = s.await]

\* The library invokes OnDone once the status has arrived, every operation has
\* completed and every hold is removed.
\* OnDone as soon as the status has arrived.
ReadyForDone_StatusOnly(s) == s.ended

ReadyForDone(s) ==
    /\ s.ended
    /\ s.rd = 0 /\ s.wr = 0 /\ s.wd = 0
    /\ Holds(s) = 0

Client_OnDone(c) ==
    /\ kind \in Kinds \ ServerKinds
    /\ calls[c].phase = "active"
    /\ ReadyForDone(calls[c])
    /\ calls' = [calls EXCEPT ![c] = Client_OnDone_reaction(calls[c])]
    /\ UNCHANGED << kind, feature_list_, rectangle, places, received_notes_, mu_, async, i_ >>

\* ------------------------------------------------------ client: unary calls
\* The Feature a GetFeature call leaves in *feature.
FeatureReplies ==
    { [has_location |-> FALSE, name |-> ""],
      [has_location |-> TRUE, name |-> ""], [has_location |-> TRUE, name |-> "A"] }

\* stub_->async()->GetFeature(&context, &point, feature, lambda)
GetOneFeature(c) ==
    /\ kind = "CGetOneFeature"
    /\ calls[c].phase = "new"
    /\ calls' = [calls EXCEPT ![c].phase = "active"]
    /\ UNCHANGED << kind, feature_list_, rectangle, places, received_notes_, mu_, async, i_ >>

\* The lambda of GetOneFeature: ret from status and feature; result = ret; done = true.
GetOneFeature_lambda(s, status, f) ==
    LET r == IF status # "OK" THEN "false"
             ELSE IF ~f.has_location THEN "false"
             ELSE "true"
    IN [s EXCEPT !.phase = "done", !.ndone = @ + 1, !.ended = TRUE,
                 !.srvStatus = status, !.feature = f, !.result = r, !.done_ = TRUE,
                 !.awaitAtDone = s.await]

GetOneFeature_done(c) ==
    /\ kind = "CGetOneFeature"
    /\ calls[c].phase = "active"
    /\ \E status \in {"OK", "FAILED"}, f \in FeatureReplies :
          calls' = [calls EXCEPT ![c] = GetOneFeature_lambda(calls[c], status, f)]
    /\ UNCHANGED << kind, feature_list_, rectangle, places, received_notes_, mu_, async, i_ >>

\* stub_->async()->SayHello(&context, &request, &reply, lambda)
GreeterClient_SayHello(c) ==
    /\ kind = "CSayHello"
    /\ calls[c].phase = "new"
    /\ calls' = [calls EXCEPT ![c].phase = "active"]
    /\ UNCHANGED << kind, feature_list_, rectangle, places, received_notes_, mu_, async, i_ >>

\* The lambda of SayHello: status = std::move(s); then, under mu, done = true.
GreeterClient_lambda(s, status) ==
    [s EXCEPT !.phase = "done", !.ndone = @ + 1, !.ended = TRUE,
              !.srvStatus = status,
              !.reply = IF status = "OK" THEN [message |-> "Hello user"] ELSE @,
              !.status_ = status, !.done_ = TRUE, !.awaitAtDone = s.await]

GreeterClient_done(c) ==
    /\ kind = "CSayHello"
    /\ calls[c].phase = "active"
    /\ \E status \in {"OK", "FAILED"} :
          calls' = [calls EXCEPT ![c] = GreeterClient_lambda(calls[c], status)]
    /\ UNCHANGED << kind, feature_list_, rectangle, places, received_notes_, mu_, async, i_ >>

\* ------------------------------------------------- the synchronous facades
\* A wait on the condition variable that returns whenever the thread wakes up.
AwaitReady_NoPredicate(s) == TRUE

\* A wait without a test of the flag at its entry: it returns only for a
\* notify_one() that finds the thread waiting.
AwaitReady_NotifiedOnly(s) == s.done_ /\ s.awaitAtDone = "waiting"

\* cv_.wait(l, [this] { return done_; }) / while (!done) cv.wait(lock): the wait
\* returns only when it finds the flag set, holding the mutex that guards it.
AwaitReady(s) == s.done_

\* What the facade hands to its caller once the wait is over.
AwaitResult(s) ==
    IF kind = "CRecorder"
    THEN [s EXCEPT !.await = "returned", !.stats = s.stats_, !.ret = s.status_]
    ELSE IF kind = "CGetOneFeature"
    THEN [s EXCEPT !.await = "returned", !.ret = s.result]
    ELSE IF kind = "CSayHello"
    THEN [s EXCEPT !.await = "returned",
                   !.ret = IF s.status_ = "OK" THEN s.reply.message ELSE "RPC failed"]
    ELSE [s EXCEPT !.await = "returned", !.ret = s.status_]

\* The application thread, having started the call, locks the mutex and waits.
Await_enter(c) ==
    /\ kind \in FacadeKinds
    /\ calls[c].phase # "new"
    /\ calls[c].await = "idle"
    /\ calls' = [calls EXCEPT ![c].await = "waiting"]
    /\ UNCHANGED << kind, feature_list_, rectangle, places, received_notes_, mu_, async, i_ >>

Await_return(c) ==
    /\ kind \in FacadeKinds
    /\ calls[c].await = "waiting"
    /\ AwaitReady(calls[c])
    /\ calls' = [calls EXCEPT ![c] = AwaitResult(calls[c])]
    /\ UNCHANGED << kind, feature_list_, rectangle, places, received_notes_, mu_, async, i_ >>

\* ------------------------------------------- completion-queue server
\* A CallData as its constructor leaves it before it calls Proceed. trace: status_
\* at the entry of each Proceed; deleted: executions of delete this; misuse: Proceed
\* ran on the object after it was deleted.
NewCallData ==
    [ status_ |-> "CREATE", op |-> "none", trace |-> << >>, deleted |-> 0,
      misuse |-> FALSE ]

RECURSIVE Proceed(_, _)
\* new CallData(service_, cq_): the constructor invokes Proceed right away.
CallData_ctor(cd) == Proceed(Append(cd, NewCallData), Len(cd) + 1)

\* Proceed that deallocates the object as soon as it has called Finish.
Proceed_DeleteInProcess(cd, tag) ==
    LET this == [cd[tag] EXCEPT !.trace = Append(@, cd[tag].status_),
                                !.misuse = @ \/ cd[tag].deleted > 0]
    IN  IF this.status_ = "CREATE"
        THEN [cd EXCEPT ![tag] = [this EXCEPT !.status_ = "PROCESS",
                                              !.op = "RequestSayHello"]]
        ELSE IF this.status_ = "PROCESS"
        THEN [CallData_ctor(cd) EXCEPT ![tag] = [this EXCEPT !.status_ = "FINISH",
                                                             !.op = "Finish",
                                                             !.deleted = @ + 1]]
        ELSE [cd EXCEPT ![tag] = [this EXCEPT !.deleted = @ + 1]]

\* Proceed without the new CallData of its PROCESS branch.
Proceed_NoSuccessor(cd, tag) ==
    LET this == [cd[tag] EXCEPT !.trace = Append(@, cd[tag].status_),
                                !.misuse = @ \/ cd[tag].deleted > 0]
    IN  IF this.status_ = "CREATE"
        THEN [cd EXCEPT ![tag] = [this EXCEPT !.status_ = "PROCESS",
                                              !.op = "RequestSayHello"]]
        ELSE IF this.status_ = "PROCESS"
        THEN [cd EXCEPT ![tag] = [this EXCEPT !.status_ = "FINISH", !.op = "Finish"]]
        ELSE [cd EXCEPT ![tag] = [this EXCEPT !.deleted = @ + 1]]

\* CallData::Proceed on the object with this tag.
Proceed(cd, tag) ==
    LET this == [cd[tag] EXCEPT !.trace = Append(@, cd[tag].status_),
                                !.misuse = @ \/ cd[tag].deleted > 0]
    IN  IF this.status_ = "CREATE"
        THEN [cd EXCEPT ![tag] = [this EXCEPT !.status_ = "PROCESS",
                                              !.op = "RequestSayHello"]]
        ELSE IF this.status_ = "PROCESS"
        THEN [CallData_ctor(cd) EXCEPT ![tag] = [this EXCEPT !.status_ = "FINISH",
                                                             !.op = "Finish"]]
        ELSE [cd EXCEPT ![tag] = [this EXCEPT !.deleted = @ + 1]]

\* HandleRpcs up to its loop: new CallData(&service_, cq_.get()).
HandleRpcs_start ==
    /\ kind = "CQ"
    /\ handleRpcs = "idle"
    /\ callData' = CallData_ctor(callData)
    /\ handleRpcs' = "loop"
    /\ UNCHANGED << kind, feature_list_, rectangle, places, calls, received_notes_, mu_, cq_, i_ >>

\* A request of a client is matched with the RequestSayHello of a CallData: its
\* event enters the queue.
Request_arrives(tag) ==
    /\ kind = "CQ"
    /\ callData[tag].op = "RequestSayHello"
    /\ Len(callData) < MaxCallData
    /\ callData' = [callData EXCEPT ![tag].op = "none"]
    /\ cq_' = cq_ \cup {[tag |-> tag, ok |-> TRUE]}
    /\ UNCHANGED << kind, feature_list_, rectangle, places, calls, received_notes_, mu_,
                    handleRpcs, i_ >>

\* The Finish of a CallData completes: ok tells whether the reply went to the wire.
Finish_completes(tag) ==
    /\ kind = "CQ"
    /\ callData[tag].op = "Finish"
    /\ callData' = [callData EXCEPT ![tag].op = "none"]
    /\ \E ok \in BOOLEAN : cq_' = cq_ \cup {[tag |-> tag, ok |-> ok]}
    /\ UNCHANGED << kind, feature_list_, rectangle, places, calls, received_notes_, mu_,
                    handleRpcs, i_ >>

\* One turn of the loop of HandleRpcs: cq_->Next(&tag, &ok); GPR_ASSERT(ok);
\* static_cast<CallData *>(tag)->Proceed().
HandleRpcs_Next ==
    /\ kind = "CQ"
    /\ handleRpcs = "loop"
    /\ \E e \in cq_ :
          /\ cq_' = cq_ \ {e}
          /\ IF e.ok
             THEN callData' = Proceed(callData, e.tag) /\ handleRpcs' = handleRpcs
             ELSE callData' = callData /\ handleRpcs' = "aborted"
    /\ UNCHANGED << kind, feature_list_, rectangle, places, calls, received_notes_, mu_, i_ >>

\* ------------------------------------------------------ ParseCommandLine
\* The words of the command lines that are tried.
Args ==
    {"--help", "-t", "--server_address", "--server_ip", "--server_port",
     "--mode", "-s", "-c", "server", "8080"}

\* CliParams_::CliParams_() and the default member initializers.
CliParams_ ==
    [ server_address |-> "0.0.0.0:50051", server_address_enabled |-> FALSE,
      server_ip |-> "0.0.0.0", server_ip_enabled |-> FALSE,
      server_port |-> DefaultServerPort, server_port_enabled |-> FALSE,
      maintenance_address |-> "0.0.0.0:50052", maintenance_address_enabled |-> FALSE,
      maintenance_ip |-> "0.0.0.0", maintenance_ip_enabled |-> FALSE,
      maintenance_port |-> DefaultMaintenancePort, maintenance_port_enabled |-> FALSE,
      mode |-> "CLIENT", mode_enabled |-> FALSE,
      secure |-> FALSE,
      database |-> "", database_enabled |-> FALSE ]

\* std::atoi on the words of Args: the leading decimal number, 0 when there is none.
Atoi(word) == IF word = "8080" THEN 8080 ELSE 0

\* std::string::operator=(char) applied to a bool: the string of the one character
\* char(b).
StringOfBool(b) == IF b THEN "\\x01" ELSE "\\x00"

\* argv[i] == "literal" compares the addresses of two char arrays; an element of
\* argv is never the array of a string literal of the program.
SamePointer(word, literal) == FALSE

\* ShowHelpAndExit(szBadOption) throws std::invalid_argument, which nothing catches;
\* a failed assert aborts.
Thrown(p) == [state |-> "THROWN", params |-> p]
AssertFailed(p) == [state |-> "ABORTED", params |-> p]

\* The statements after the loop: the addresses are composed of ip and port unless
\* the _enabled flag of the address is set.
ComposeAddresses(p) ==
    LET m == IF p.maintenance_address_enabled THEN p
             ELSE IF p.maintenance_port_enabled \/ p.maintenance_ip_enabled
             THEN [p EXCEPT !.maintenance_address =
                      p.maintenance_ip \o ":" \o ToString(p.maintenance_port)]
             ELSE p
    IN  IF m.server_address_enabled THEN m
        ELSE IF m.server_port_enabled \/ m.server_ip_enabled
        THEN [m EXCEPT !.server_address = m.server_ip \o ":" \o ToString(m.server_port)]
        ELSE m

RECURSIVE ParseLoop(_, _, _, _)
\* The for loop from index i on. ndebug: the build defines NDEBUG.
ParseLoop(args, i, p, ndebug) ==
    IF i > Len(args) THEN [state |-> "SUCCESS", params |-> ComposeAddresses(p)]
    ELSE LET a == args[i]
             last == (i = Len(args))
         IN
         IF a \in {"--help", "-h"} THEN [state |-> "SHOW_HELP", params |-> p]
         ELSE IF a \in {"--target", "-t", "--server_address"}
         THEN IF last THEN Thrown(p)
              ELSE ParseLoop(args, i + 2,
                     [[p EXCEPT !.server_address = args[i + 1]]
                         EXCEPT !.server_address = StringOfBool(TRUE)], ndebug)
         ELSE IF a = "--server_ip"
         THEN IF last THEN Thrown(p)
              ELSE ParseLoop(args, i + 2,
                     [p EXCEPT !.server_ip = args[i + 1], !.server_ip_enabled = TRUE],
                     ndebug)
         ELSE IF a = "--server_port"
         THEN IF last THEN Thrown(p)
              ELSE ParseLoop(args, i + 2,
                     [p EXCEPT !.server_port = Atoi(args[i + 1]),
                               !.server_port_enabled = TRUE], ndebug)
         ELSE IF a = "--maintenance_address"
         THEN IF last THEN Thrown(p)
              ELSE ParseLoop(args, i + 2,
                     [p EXCEPT !.maintenance_address = args[i + 1],
                               !.maintenance_address_enabled = TRUE], ndebug)
         ELSE IF a = "--maintenance_ip"
         THEN IF last THEN Thrown(p)
              ELSE ParseLoop(args, i + 2,
                     [p EXCEPT !.maintenance_ip = args[i + 1],
                               !.maintenance_ip_enabled = TRUE], ndebug)
         ELSE IF a = "--maintenance_port"
         THEN IF last THEN Thrown(p)
              ELSE ParseLoop(args, i + 2,
                     [p EXCEPT !.maintenance_port = Atoi(args[i + 1]),
                               !.maintenance_port_enabled = TRUE], ndebug)
         ELSE IF a \in {"--mode", "-m"}
         THEN IF last THEN Thrown(p)
              ELSE IF SamePointer(args[i + 1], "server")
              THEN ParseLoop(args, i + 2,
                     [p EXCEPT !.mode = "SERVER", !.mode_enabled = TRUE], ndebug)
              ELSE IF ~ndebug /\ ~SamePointer(args[i + 1], "client")
              THEN AssertFailed(p)
              ELSE ParseLoop(args, i + 2,
                     [p EXCEPT !.mode = "CLIENT", !.mode_enabled = TRUE], ndebug)
         ELSE IF a = "-s"
         THEN ParseLoop(args, i + 1,
                     [p EXCEPT !.mode = "SERVER", !.mode_enabled = TRUE], ndebug)
         ELSE IF a = "-c"
         THEN ParseLoop(args, i + 1,
                     [p EXCEPT !.mode = "CLIENT", !.mode_enabled = TRUE], ndebug)
         ELSE IF a = "--secure"
         THEN ParseLoop(args, i + 1, [p EXCEPT !.secure = TRUE], ndebug)
         ELSE IF a \in {"--database", "-db"}
         THEN IF last THEN Thrown(p)
              ELSE ParseLoop(args, i + 2,
                     [p EXCEPT !.database = args[i + 1], !.database_enabled = TRUE],
                     ndebug)
         ELSE Thrown(p)

\* ParseCommandLine(argc, argv, &cli_params) on a freshly constructed CliParams.
ParseCommandLine(args, ndebug) == ParseLoop(args, 1, CliParams_, ndebug)

\* 128 + SIGABRT: the process was ended by std::terminate or abort.
Aborted == 134

\* main: CliParams cli_params; cliState = ParseCommandLine(argc, argv, &cli_params).
main_ParseCommandLine(c) ==
    /\ kind = "CLI"
    /\ calls[c].cliState = "none"
    /\ \E ndebug \in BOOLEAN :
          LET r == ParseCommandLine(calls[c].argv, ndebug) IN
          calls' = [calls EXCEPT ![c].cliState = r.state,
                                 ![c].cli_params = r.params,
                                 ![c].exit = IF r.state \in {"THROWN", "ABORTED"}
                                             THEN Aborted ELSE @]
    /\ UNCHANGED << kind, feature_list_, rectangle, places, received_notes_, mu_, async, i_ >>

\* main after the call: the branch on cliState. A run in mode CLIENT or SERVER has
\* step = 1 and has not returned.
main_branch(c) ==
    /\ kind = "CLI"
    /\ calls[c].cliState # "none"
    /\ calls[c].exit = Running
    /\ calls[c].step = 0
    /\ calls' = [calls EXCEPT ![c] =
                    IF calls[c].cliState = "SUCCESS" THEN [@ EXCEPT !.step = 1]
                    ELSE IF calls[c].cliState = "SHOW_HELP" THEN [@ EXCEPT !.exit = 0]
                    ELSE [@ EXCEPT !.exit = 1]]
    /\ UNCHANGED << kind, feature_list_, rectangle, places, received_notes_, mu_, async, i_ >>

\* ------------------------------------------------------- main, mode CLIENT
Statuses == {"OK", "FAILED"}

Says(s, line) == [s EXCEPT !.out = Append(@, line)]

\* What the caller of a facade sees of the status: the count of failed RPCs.
Returned(s, status) == IF status = "OK" THEN s ELSE [s EXCEPT !.failures = @ + 1]

\* GetOneFeature as its caller sees it: the callback prints the failure.
RouteGuideClient_GetOneFeature(s, status) ==
    IF status # "OK" THEN Says(Returned(s, status), "GetFeature rpc failed.")
    ELSE Says(s, "Found")

\* GetFeature(): two calls of GetOneFeature, their results unused.
RouteGuideClient_GetFeature(s, st1, st2) ==
    RouteGuideClient_GetOneFeature(RouteGuideClient_GetOneFeature(s, st1), st2)

\* ListFeatures(): status = reader.Await().
RouteGuideClient_ListFeatures(s, status) ==
    IF status = "OK" THEN Says(s, "ListFeatures rpc succeeded.")
    ELSE Says(Returned(s, status), "ListFeatures rpc failed.")

\* RecordRoute() that leaves the program when the RPC failed.
RouteGuideClient_RecordRoute_ExitOnFailure(s, status) ==
    IF status = "OK" THEN Says(s, "Finished trip")
    ELSE [Says(Returned(s, status), "RecordRoute rpc failed.")
             EXCEPT !.exit = 1, !.step = 5]

\* RecordRoute(): status = recorder.Await(&stats).
RouteGuideClient_RecordRoute(s, status) ==
    IF status = "OK" THEN Says(s, "Finished trip")
    ELSE Says(Returned(s, status), "RecordRoute rpc failed.")

\* RouteChat(): status = chatter.Await().
RouteGuideClient_RouteChat(s, status) ==
    IF status # "OK" THEN Says(Returned(s, status), "RouteChat rpc failed.") ELSE s

Ran(s) == IF s.exit = Running THEN [s EXCEPT !.step = @ + 1] ELSE s

main_GetFeature(c) ==
    /\ kind = "CMain"
    /\ calls[c].step = 0
    /\ \E st1, st2 \in Statuses :
          calls' = [calls EXCEPT ![c] =
             Ran(RouteGuideClient_GetFeature(
                    Says(calls[c], "-------------- GetFeature --------------"),
                    st1, st2))]
    /\ UNCHANGED << kind, feature_list_, rectangle, places, received_notes_, mu_, async, i_ >>

main_ListFeatures(c) ==
    /\ kind = "CMain"
    /\ calls[c].step = 1
    /\ \E status \in Statuses :
          calls' = [calls EXCEPT ![c] =
             Ran(RouteGuideClient_ListFeatures(
                    Says(calls[c], "-------------- ListFeatures --------------"),
                    status))]
    /\ UNCHANGED << kind, feature_list_, rectangle, places, received_notes_, mu_, async, i_ >>

main_RecordRoute(c) ==
    /\ kind = "CMain"
    /\ calls[c].step = 2
    /\ \E status \in Statuses :
          calls' = [calls EXCEPT ![c] =
             Ran(RouteGuideClient_RecordRoute(
                    Says(calls[c], "-------------- RecordRoute --------------"),
                    status))]
    /\ UNCHANGED << kind, feature_list_, rectangle, places, received_notes_, mu_, async, i_ >>

main_RouteChat(c) ==
    /\ kind = "CMain"
    /\ calls[c].step = 3
    /\ \E status \in Statuses :
          calls' = [calls EXCEPT ![c] =
             Ran(RouteGuideClient_RouteChat(
                    Says(calls[c], "-------------- RouteChat --------------"),
                    status))]
    /\ UNCHANGED << kind, feature_list_, rectangle, places, received_notes_, mu_, async, i_ >>

\* return 0 at the end of the SUCCESS branch.
main_return(c) ==
    /\ kind = "CMain"
    /\ calls[c].step = 4
    /\ calls' = [calls EXCEPT ![c].exit = 0, ![c].step = 5]
    /\ UNCHANGED << kind, feature_list_, rectangle, places, received_notes_, mu_, async, i_ >>

\* ------------------------------------------------------------ the Greeter service

ServiceKinds == {"Greeter"}

\* The calls the service has replied to, over the handler threads S.
RECURSIVE Handled(_)
Handled(S) ==
    IF S = {} THEN 0
    ELSE LET c == CHOOSE x \in S : TRUE IN Len(calls[c].replies) + Handled(S \ {c})

\* SayHello up to set_order: the message of the reply is set.
SayHello(c) ==
    /\ kind = "Greeter"
    /\ calls[c].pc = "run"
    /\ Handled(Calls) + Cardinality({ d \in Calls : calls[d].pc # "run" }) < MaxHello
    /\ \E name \in {"user"} :
          calls' = [calls EXCEPT ![c].pc = "load",
                                 ![c].reply = [message |-> "Hello " \o name, order |-> 0]]
    /\ UNCHANGED << kind, feature_list_, rectangle, places, received_notes_, mu_, async, i_ >>

\* ++i on the plain int i, without a lock: the handler loads i ...
SayHello_load(c) ==
    /\ kind = "Greeter"
    /\ calls[c].pc = "load"
    /\ calls' = [calls EXCEPT ![c].pc = "store", ![c].reg = i_]
    /\ UNCHANGED << kind, feature_list_, rectangle, places, received_notes_, mu_, async, i_ >>

\* ... and stores the value it loaded plus one.
SayHello_store(c) ==
    /\ kind = "Greeter"
    /\ calls[c].pc = "store"
    /\ i_' = calls[c].reg + 1
    /\ calls' = [calls EXCEPT ![c].pc = "order"]
    /\ UNCHANGED << kind, feature_list_, rectangle, places, received_notes_, mu_, async >>

\* set_order(++i) and the end of the handler: ++i is the object i, which the
\* build reads again or whose value it still holds; the reply goes out with
\* Status::OK.
SayHello_return(c) ==
    /\ kind = "Greeter"
    /\ calls[c].pc = "order"
    /\ \E order \in {calls[c].reg + 1, i_} :
          calls' = [calls EXCEPT ![c].pc = "run",
                                 ![c].replies = Append(@, [calls[c].reply EXCEPT !.order = order])]
    /\ UNCHANGED << kind, feature_list_, rectangle, places, received_notes_, mu_, async, i_ >>

\* ------------------------------------------------------------ specification
Rectangles == [lo : Points, hi : Points]

Init ==
    /\ kind \in Kinds \cup UnaryClientKinds \cup MainKinds \cup AsyncKinds \cup ServiceKinds
    /\ i_ = 0
    /\ callData = << >>
    /\ cq_ = {}
    /\ handleRpcs = "idle"
    /\ feature_list_ \in
          IF kind \in {"GetFeature", "Lister", "SRecorder"}
          THEN SeqsUpTo(Features, MaxFeatures)
          ELSE IF kind = "CRecorder"
          THEN SeqsUpTo(Features, MaxFeatures) \ { << >> }
          ELSE { << >> }
    /\ rectangle \in
          IF kind = "Lister" THEN Rectangles
          ELSE { [lo |-> MakePoint(0, 0), hi |-> MakePoint(0, 0)] }
    /\ places \in
          IF kind = "SChatter" THEN {NotePoints, NotePointsOnEquator} ELSE {NotePoints}
    /\ calls \in
          IF kind = "CLI"
          THEN { [c \in Calls |-> [NewCall EXCEPT !.argv = a]] : a \in SeqsUpTo(Args, MaxArgs) }
          ELSE { [c \in Calls |-> NewCall] }
    /\ received_notes_ = << >>
    /\ mu_ = 0

Next ==
    \/ \E c \in ActiveCalls : GetFeature(c)
    \/ \E c \in ActiveCalls : ListFeatures(c)
    \/ \E c \in ActiveCalls : Lister_OnWriteDone(c)
    \/ \E c \in ActiveCalls : RecordRoute(c)
    \/ \E c \in ActiveCalls : SRecorder_ReadDone(c)
    \/ \E c \in ActiveCalls : RouteChat(c)
    \/ \E c \in ActiveCalls : SChatter_ReadDone(c)
    \/ \E c \in ActiveCalls : SChatter_Lock(c)
    \/ \E c \in ActiveCalls : SChatter_CopyUnlock(c)
    \/ \E c \in ActiveCalls : SChatter_PushUnlock(c)
    \/ \E c \in ActiveCalls : SChatter_OnWriteDone(c)
    \/ \E c \in ActiveCalls : Cancel(c)
    \/ \E c \in ActiveCalls : Server_OnDone(c)
    \/ \E c \in ActiveCalls : CReader_new(c)
    \/ \E c \in ActiveCalls : CReader_ReadDone(c)
    \/ \E c \in ActiveCalls : CRecorder_new(c)
    \/ \E c \in ActiveCalls : CRecorder_WriteDone(c)
    \/ \E c \in ActiveCalls : CRecorder_Alarm(c)
    \/ \E c \in ActiveCalls : CChatter_new(c)
    \/ \E c \in ActiveCalls : CChatter_WriteDone(c)
    \/ \E c \in ActiveCalls : CChatter_ReadDone(c)
    \/ \E c \in ActiveCalls : WritesDoneDone(c)
    \/ \E c \in ActiveCalls : RecvStatus(c)
    \/ \E c \in ActiveCalls : Client_OnDone(c)
    \/ \E c \in ActiveCalls : GetOneFeature(c)
    \/ \E c \in ActiveCalls : GetOneFeature_done(c)
    \/ \E c \in ActiveCalls : GreeterClient_SayHello(c)
    \/ \E c \in ActiveCalls : GreeterClient_done(c)
    \/ \E c \in ActiveCalls : Await_enter(c)
    \/ \E c \in ActiveCalls : Await_return(c)
    \/ \E c \in ActiveCalls : SayHello(c)
    \/ \E c \in ActiveCalls : SayHello_load(c)
    \/ \E c \in ActiveCalls : SayHello_store(c)
    \/ \E c \in ActiveCalls : SayHello_return(c)
    \/ HandleRpcs_start
    \/ \E tag \in 1..Len(callData) : Request_arrives(tag)
    \/ \E tag \in 1..Len(callData) : Finish_completes(tag)
    \/ HandleRpcs_Next
    \/ \E c \in ActiveCalls : main_ParseCommandLine(c)
    \/ \E c \in ActiveCalls : main_branch(c)
    \/ \E c \in ActiveCalls : main_GetFeature(c)
    \/ \E c \in ActiveCalls : main_ListFeatures(c)
    \/ \E c \in ActiveCalls : main_RecordRoute(c)
    \/ \E c \in ActiveCalls : main_RouteChat(c)
    \/ \E c \in ActiveCalls : main_return(c)

Spec == Init /\ [][Next]_vars

\* Every operation that was issued completes, every ready OnDone is delivered, every
\* alarm fires, every lock request is served and the status reaches the client.
Progress(c) ==
    \/ Lister_OnWriteDone(c)
    \/ SRecorder_ReadDone(c)
    \/ SChatter_ReadDone(c)
    \/ SChatter_Lock(c)
    \/ SChatter_CopyUnlock(c)
    \/ SChatter_PushUnlock(c)
    \/ SChatter_OnWriteDone(c)
    \/ Server_OnDone(c)
    \/ CReader_ReadDone(c)
    \/ CRecorder_WriteDone(c)
    \/ CRecorder_Alarm(c)
    \/ CChatter_WriteDone(c)
    \/ CChatter_ReadDone(c)
    \/ WritesDoneDone(c)
    \/ RecvStatus(c)
    \/ Client_OnDone(c)
    \/ GetOneFeature_done(c)
    \/ GreeterClient_done(c)
    \/ Await_enter(c)
    \/ Await_return(c)

\* The runs on which progress is checked: every feature is named, the notes come
\* from latitude 0 and the command line has at most one argument. Progress depends
\* on the data only through the number of features in the rectangle and of notes
\* at the inbound note's location.
FairInit ==
    /\ Init
    /\ \A i \in 1..Len(feature_list_) : feature_list_[i].name = "A"
    /\ kind = "SChatter" => places = NotePointsOnEquator
    /\ kind = "CLI" => Len(calls[1].argv) <= 1

FairSpec == FairInit /\ [][Next]_vars /\ \A c \in Calls : WF_vars(Progress(c))

\* ------------------------------------------------------------------ claims
\* The notes session s forwarded while it processed its k-th inbound note.
Batch(s, k) ==
    SubSeq(s.sent, s.batchStart[k] + 1,
           IF k < Len(s.batchStart) THEN s.batchStart[k + 1] ELSE Len(s.sent))

\* The processing of the k-th inbound note of session s is over: the note is in the log.
BatchComplete(s, k) == k <= s.appended

Range(q) == { q[i] : i \in 1..Len(q) }

\* C1: no reactor issues a StartRead while a read of its Call is outstanding, nor a
\* StartWrite while a write of its Call is outstanding.
C1_OneReadOneWrite ==
    \A c \in Calls :
        /\ calls[c].rd <= 1
        /\ calls[c].wr <= 1
        /\ calls[c].viol \cap {"two_reads", "two_writes"} = {}

C1_Witness ==
    \E c \in Calls :
        /\ kind = "CChatter"
        /\ calls[c].nread >= 1 /\ calls[c].rd = 1
        /\ calls[c].notes_iterator_ = 3 /\ calls[c].wr = 1

\* C2: on a responder-side Call Finish is called at most once.
C2_FinishAtMostOnce ==
    kind \in ServerKinds => \A c \in Calls : calls[c].fin <= 1

C2_Witness ==
    \E c \in Calls :
        /\ kind = "Lister"
        /\ calls[c].fin = 1 /\ Len(calls[c].sent) >= 2 /\ calls[c].cancelled

\* C3: a responder-side Call that is cancelled before Finish still calls Finish.
C3_CancelledStillFinishes ==
    \A c \in Calls : [](calls[c].cancelled => <>(calls[c].fin >= 1))

C3_Witness ==
    \E c \in Calls :
        /\ kind = "SChatter"
        /\ calls[c].cancelled /\ calls[c].fin = 1
        /\ Len(calls[c].sent) >= 1

\* C4: after Finish a responder issues no StartRead, no StartWrite and no second
\* Finish, and Finish is called with no read and no write outstanding.
C4_NothingAfterFinish ==
    kind \in ServerKinds =>
        \A c \in Calls :
            /\ calls[c].viol \cap
                   {"op_after_finish", "two_finishes", "finish_with_outstanding"} = {}
            /\ calls[c].fin > 0 => calls[c].rd = 0 /\ calls[c].wr = 0

C4_Witness ==
    \E c \in Calls :
        /\ kind = "SRecorder"
        /\ calls[c].fin = 1 /\ calls[c].point_count_ >= 2

\* What holds of a Call once its OnDone has run, and of the count of its OnDones.
C5_DoneState(s) ==
    /\ s.ndone <= 1
    /\ s.phase = "done" <=> s.ndone = 1
    /\ s.phase = "done" =>
          /\ s.rd = 0 /\ s.wr = 0 /\ s.wd = 0
          /\ Holds(s) = 0
          /\ "op_after_done" \notin s.viol

\* C5: OnDone fires exactly once per Call, with no read, write or writes-done
\* outstanding and no hold left, and nothing is issued on the Call after it.
C5_OnDoneOnceAndLast ==
    /\ [](\A c \in Calls : C5_DoneState(calls[c]))
    /\ \A c \in Calls : (calls[c].phase = "active") ~> (calls[c].phase = "done")

C5_Witness ==
    \E c \in Calls :
        /\ kind = "CRecorder"
        /\ calls[c].phase = "done" /\ calls[c].ndone = 1
        /\ calls[c].holdsAtStatus = 0 /\ calls[c].status_ = "OK"

\* C6: the OnDone of the client Recorder fires only after RemoveHold and after the
\* terminal status, whichever of the two comes first.
C6_DoneAfterRemoveHold ==
    kind = "CRecorder" =>
        \A c \in Calls :
            calls[c].ndone >= 1 =>
                /\ calls[c].removeHolds >= 1
                /\ calls[c].ended
                /\ calls[c].points_remaining_ = 0
                /\ calls[c].writesDone = 1
                /\ calls[c].alarm = 0

C6_Witness ==
    \E c \in Calls :
        /\ kind = "CRecorder"
        /\ calls[c].ndone = 1
        /\ calls[c].holdsAtStatus = 1

\* C7: the client Recorder never calls RemoveHold more often than AddHold, and when
\* its Call has ended the two counts are equal.
C7_HoldsBalanced ==
    kind = "CRecorder" =>
        \A c \in Calls :
            /\ calls[c].removeHolds <= calls[c].addHolds
            /\ "hold_underflow" \notin calls[c].viol
            /\ calls[c].phase = "done" => calls[c].removeHolds = calls[c].addHolds

C7_Witness ==
    \E c \in Calls :
        /\ kind = "CRecorder"
        /\ calls[c].phase = "done"
        /\ calls[c].addHolds = 1 /\ calls[c].removeHolds = 1
        /\ calls[c].srvStatus = "FAILED"

\* C8: the notes a server Chatter writes back for an inbound note are exactly the
\* entries of the log at snapshot time that lie at the inbound note's location, each
\* once and in log order.
C8_BatchIsSnapshotFilter ==
    kind = "SChatter" =>
        \A c \in Calls :
            \A k \in 1..Len(calls[c].snapLen) :
                BatchComplete(calls[c], k) =>
                    Batch(calls[c], k) =
                        SelectSeq(SubSeq(received_notes_, 1, calls[c].snapLen[k]),
                                  LAMBDA n : SameLocation(n, calls[c].inbound[k]))

\* C9: on a single session against an empty log, notes at (0,0), (0,1), (0,0) in this
\* order are answered by nothing, nothing and the first note once.
C9_Scenario(c) ==
    /\ kind = "SChatter"
    /\ \A d \in Calls \ {c} : calls[d].nread = 0
    /\ Len(calls[c].inbound) >= 3
    /\ calls[c].inbound[1].location = MakePoint(0, 0)
    /\ calls[c].inbound[2].location = MakePoint(0, 1)
    /\ calls[c].inbound[3].location = MakePoint(0, 0)

C9_ThreeNotes ==
    \A c \in Calls :
        C9_Scenario(c) =>
            /\ Batch(calls[c], 1) = << >>
            /\ Batch(calls[c], 2) = << >>
            /\ Batch(calls[c], 3) \in { << >>, << calls[c].inbound[1] >> }
            /\ BatchComplete(calls[c], 3) => Batch(calls[c], 3) = << calls[c].inbound[1] >>

C9_Witness ==
    \E c \in Calls :
        /\ C9_Scenario(c)
        /\ BatchComplete(calls[c], 3)
        /\ Batch(calls[c], 3) = << calls[c].inbound[1] >>

\* C10: a note forwarded while inbound note B is processed was in the log before B's
\* snapshot, and every note that was in the log before B's snapshot and lies at B's
\* location is forwarded during B's processing, whichever session appended it.
C10_ForwardedIffBeforeSnapshot ==
    kind = "SChatter" =>
        \A c \in Calls :
            \A k \in 1..Len(calls[c].snapLen) :
                LET before == SubSeq(received_notes_, 1, calls[c].snapLen[k]) IN
                /\ Range(Batch(calls[c], k)) \subseteq Range(before)
                /\ BatchComplete(calls[c], k) =>
                      \A i \in 1..Len(before) :
                          SameLocation(before[i], calls[c].inbound[k]) =>
                              before[i] \in Range(Batch(calls[c], k))

C10_Witness ==
    \E c \in Calls :
        \E k \in 1..Len(calls[c].snapLen) :
            /\ BatchComplete(calls[c], k)
            /\ \E n \in Range(Batch(calls[c], k)) : n.message[1] # c

\* The index in the log of the k-th note that session c appended.
RECURSIVE LogIndex(_, _, _)
LogIndex(c, k, i) ==
    IF i > Len(received_notes_) THEN 0
    ELSE IF received_notes_[i].message = << c, k >> THEN i
    ELSE LogIndex(c, k, i + 1)

\* C11: a note that enters the log after a Chatter took the snapshot for its
\* current inbound note is not forwarded for that inbound note: neither the notes
\* already written nor the copy still to be written contain it.
C11_BatchFixedAtSnapshot ==
    kind = "SChatter" =>
        \A c \in Calls :
            /\ \A k \in 1..Len(calls[c].snapLen) :
                  \A i \in (calls[c].snapLen[k] + 1)..Len(received_notes_) :
                      received_notes_[i] \notin Range(Batch(calls[c], k))
            /\ calls[c].snapLen # << >> =>
                  \A i \in (calls[c].snapLen[Len(calls[c].snapLen)] + 1)..Len(received_notes_) :
                      received_notes_[i] \notin Range(calls[c].to_send_notes_)

\* Another session appended a note at the inbound note's location between the
\* snapshot and the end of a batch that had something to write.
C11_Witness ==
    \E c \in Calls :
        \E k \in 1..Len(calls[c].snapLen) :
            /\ BatchComplete(calls[c], k)
            /\ Batch(calls[c], k) # << >>
            /\ \E i \in (calls[c].snapLen[k] + 1)..(LogIndex(c, k, 1) - 1) :
                  /\ received_notes_[i].message[1] # c
                  /\ SameLocation(received_notes_[i], calls[c].inbound[k])

RECURSIVE SumAppended(_)
\* The appends the sessions of S have performed.
SumAppended(S) ==
    IF S = {} THEN 0
    ELSE LET c == CHOOSE x \in S : TRUE IN calls[c].appended + SumAppended(S \ {c})

Count(q, x) == Cardinality({ i \in 1..Len(q) : q[i] = x })

\* C12: after K appends by the sessions, in whatever interleaving, the log (empty
\* at start) has length K, holds every appended note exactly once, and holds nothing else.
C12_NoAppendLost ==
    kind = "SChatter" =>
        /\ Len(received_notes_) = SumAppended(Calls)
        /\ \A c \in Calls :
              \A k \in 1..calls[c].appended :
                  Count(received_notes_, calls[c].inbound[k]) = 1
        /\ \A i \in 1..Len(received_notes_) :
              \E c \in Calls :
                  \E k \in 1..calls[c].appended : received_notes_[i] = calls[c].inbound[k]

\* Three appends of two sessions that were active together, interleaved.
C12_Witness ==
    /\ Len(received_notes_) = 3
    /\ received_notes_[1].message[1] = received_notes_[3].message[1]
    /\ received_notes_[2].message[1] # received_notes_[1].message[1]
    /\ \A c \in Calls : calls[c].phase = "active" /\ calls[c].pc = "run"

IsPrefix(p, q) == Len(p) <= Len(q) /\ SubSeq(q, 1, Len(p)) = p

RECURSIVE Snapshots(_, _)
\* What the first k snapshots of session s put into to_send_notes_, had each been
\* computed from the prefix of the present log that was the log when it was taken.
Snapshots(s, k) ==
    IF k = 0 THEN << >>
    ELSE Snapshots(s, k - 1)
         \o SelectSeq(SubSeq(received_notes_, 1, s.snapLen[k]),
                      LAMBDA n : SameLocation(n, s.inbound[k]))

\* C13: the log only grows at its end (no step removes, reorders or changes an
\* entry), and every snapshot of a Chatter is the filter of a complete prefix of the
\* log as it is in every later state.
C13_AppendOnly ==
    /\ [][IsPrefix(received_notes_, received_notes_')]_vars
    /\ [](kind = "SChatter" =>
            \A c \in Calls :
                /\ \A k \in 1..Len(calls[c].snapLen) :
                      calls[c].snapLen[k] <= Len(received_notes_)
                /\ calls[c].to_send_notes_ = Snapshots(calls[c], Len(calls[c].snapLen)))

\* Two snapshots of one session over prefixes of different lengths, the log having
\* grown past both.
C13_Witness ==
    \E c \in Calls :
        /\ Len(calls[c].snapLen) >= 2
        /\ calls[c].snapLen[1] < calls[c].snapLen[2]
        /\ calls[c].snapLen[2] < Len(received_notes_)
        /\ calls[c].to_send_notes_ # << >>
        /\ \E i \in 1..Len(received_notes_) : received_notes_[i].message[1] # c

\* C14: a server Chatter never starts a read or a write and never calls Finish
\* inside a critical section of mu_, has no operation outstanding while it is in one,
\* and holds mu_ only between the Lock and the Unlock of one reaction.
C14_NoOperationUnderLock ==
    kind = "SChatter" =>
        \A c \in Calls :
            /\ "op_under_lock" \notin calls[c].viol
            /\ mu_ = c <=> calls[c].pc \in {"R_crit", "W_crit"}
            /\ mu_ = c => calls[c].rd = 0 /\ calls[c].wr = 0 /\ calls[c].fin = 0

\* A session that took the lock in OnReadDone and in NextWrite, wrote, read and
\* finished, while the other session is inside a critical section.
C14_Witness ==
    \E c \in Calls :
        /\ calls[c].fin = 1 /\ calls[c].appended >= 2 /\ Len(calls[c].sent) >= 1
        /\ mu_ \notin {0, c}

\* Session c is between a Lock and the matching Unlock of mu_.
InCritical(c) == calls[c].pc \in {"R_crit", "W_crit"}

\* C15: every step that reads received_notes_ (a snapshot) or appends to it is taken
\* by the session that holds mu_, and at most one session holds mu_ at any time.
C15_LogAccessUnderLock ==
    /\ [][\A c \in Calls :
             (\/ Len(calls'[c].snapLen) > Len(calls[c].snapLen)
              \/ calls'[c].appended > calls[c].appended)
                 => mu_ = c /\ InCritical(c)]_vars
    /\ [][received_notes_' # received_notes_ => mu_ # 0 /\ calls[mu_].pc = "W_crit"]_vars
    /\ [](/\ mu_ \in {0} \cup Calls
          /\ Cardinality({ c \in Calls : InCritical(c) }) <= 1
          /\ \A c \in Calls : InCritical(c) => mu_ = c)

\* One session appends under the lock while the other waits for it to take a snapshot.
C15_Witness ==
    \E c, d \in Calls :
        /\ calls[c].pc = "W_crit" /\ mu_ = c
        /\ calls[d].pc = "R_lock"
        /\ received_notes_ # << >>

\* rect with its corners exchanged in latitude (a) and in longitude (b).
SwapCorners(rect, a, b) ==
    [lo |-> MakePoint(IF a THEN rect.hi.latitude ELSE rect.lo.latitude,
                      IF b THEN rect.hi.longitude ELSE rect.lo.longitude),
     hi |-> MakePoint(IF a THEN rect.lo.latitude ELSE rect.hi.latitude,
                      IF b THEN rect.lo.longitude ELSE rect.hi.longitude)]

\* f lies in the box spanned by the corners of rect, both bounds included.
InBox(rect, f) ==
    /\ Min(rect.lo.latitude, rect.hi.latitude) <= f.location.latitude
    /\ f.location.latitude <= Max(rect.lo.latitude, rect.hi.latitude)
    /\ Min(rect.lo.longitude, rect.hi.longitude) <= f.location.longitude
    /\ f.location.longitude <= Max(rect.lo.longitude, rect.hi.longitude)

RECURSIVE Lister_Run(_)
\* A Lister driven to its Finish, every write completing.
Lister_Run(s) ==
    IF s.fin > 0 THEN s ELSE Lister_Run(Lister_NextWrite(WriteCompleted(s)))

\* The features a Lister constructed for rect passes to StartWrite.
Lister_Output(rect) == Lister_Run(Lister_ctor(NewCall, rect)).sent

\* C16: for the rectangle and the feature list of the run, the Lister emits the same
\* set of features with the corners exchanged in latitude, in longitude or in both,
\* and that set is the features inside the box of the corners, bounds included.
C16_CornerOrderIrrelevant ==
    kind = "Lister" =>
        /\ \A a, b \in BOOLEAN :
              Range(Lister_Output(SwapCorners(rectangle, a, b)))
                  = { f \in Range(feature_list_) : InBox(rectangle, f) }
        /\ \A c \in ActiveCalls :
              calls[c].fin > 0 =>
                  Range(calls[c].sent) = { f \in Range(feature_list_) : InBox(rectangle, f) }

\* A finished Lister whose rectangle has lo above hi in both coordinates, with one
\* feature inside the box and one outside.
C16_Witness ==
    \E c \in ActiveCalls :
        /\ kind = "Lister"
        /\ rectangle.lo.latitude > rectangle.hi.latitude
        /\ rectangle.lo.longitude >= rectangle.hi.longitude
        /\ calls[c].fin = 1
        /\ Len(feature_list_) = 2 /\ Len(calls[c].sent) = 1

\* C17: the features a Lister passes to StartWrite are, in list order and each once,
\* the features of the list inside the rectangle, and Finish(OK) follows the last
\* of them: the same sequence and status as the blocking ListFeatures handler.
C17_ListerWritesMatchesInOrder ==
    kind = "Lister" =>
        \A c \in ActiveCalls :
            LET b == Blocking_ListFeatures(rectangle, feature_list_) IN
            /\ b.written = SelectSeq(feature_list_, LAMBDA f : InBox(rectangle, f))
            /\ IsPrefix(calls[c].sent, b.written)
            /\ calls[c].fin > 0 =>
                  /\ calls[c].sent = b.written
                  /\ calls[c].fin = 1 /\ calls[c].srvStatus = b.status

\* A Lister that was not cancelled wrote two different features and finished.
C17_Witness ==
    \E c \in ActiveCalls :
        /\ kind = "Lister" /\ ~calls[c].cancelled
        /\ calls[c].fin = 1 /\ calls[c].srvStatus = "OK"
        /\ Len(calls[c].sent) = 2 /\ calls[c].sent[1] # calls[c].sent[2]

\* No feature of the list lies inside the rectangle.
NoMatch == \A i \in 1..Len(feature_list_) : ~InBox(rectangle, feature_list_[i])

\* C18: when no feature lies inside the rectangle (the list may be empty), the Lister
\* has called Finish(OK) by the time its constructor returns, starts no write, and
\* its Call can complete at once.
C18_EmptyResultFinishes ==
    (kind = "Lister" /\ NoMatch) =>
        /\ LET s == Lister_ctor(NewCall, rectangle) IN
              s.fin = 1 /\ s.srvStatus = "OK" /\ s.sent = << >> /\ s.wr = 0
        /\ \A c \in ActiveCalls :
              calls[c].phase # "new" =>
                  /\ calls[c].fin = 1 /\ calls[c].srvStatus = "OK"
                  /\ calls[c].sent = << >> /\ calls[c].wr = 0
                  /\ calls[c].viol = {}
                  /\ calls[c].phase = "active" => ENABLED Server_OnDone(c)

\* The Call of a Lister over a non-empty list without a match has completed.
C18_Witness ==
    \E c \in ActiveCalls :
        /\ kind = "Lister" /\ NoMatch
        /\ Len(feature_list_) = 2
        /\ calls[c].phase = "done" /\ calls[c].srvStatus = "OK"

\* The legs between consecutive points of a route.
Legs(points) == [i \in 1..(Len(points) - 1) |-> << points[i], points[i + 1] >>]

\* Some feature of the list with a name lies at point p.
AtNamedFeature(p) ==
    \E j \in 1..Len(feature_list_) :
        feature_list_[j].name # "" /\ feature_list_[j].location = p

\* C19: the summary of a server Recorder counts the points received, the
\* points whose location is the location of a named feature, and the legs between
\* consecutive points, and is the summary of the blocking RecordRoute handler.
C19_SummaryCountsNamedLocations ==
    kind = "SRecorder" =>
        \A c \in ActiveCalls :
            calls[c].fin > 0 =>
                LET P == calls[c].inbound IN
                /\ calls[c].summary.point_count = Len(P)
                /\ calls[c].summary.feature_count =
                       Cardinality({ i \in 1..Len(P) : AtNamedFeature(P[i]) })
                /\ calls[c].summary.distance = Legs(P)
                /\ calls[c].summary = Blocking_RecordRoute(P, feature_list_)

\* C20: a facade returns to its caller only after the completion reaction has set
\* the done flag; what it returns is what that reaction stored (the status, the
\* result of GetOneFeature, the reply or the failure text of SayHello); and the
\* client Recorder copies the response record out only then.
C20_AwaitReturnsAfterDone ==
    \A c \in Calls :
        calls[c].await = "returned" =>
            /\ calls[c].done_ /\ calls[c].ndone = 1
            /\ kind \in Kinds =>
                  calls[c].ret = calls[c].status_ /\ calls[c].ret = calls[c].srvStatus
            /\ kind = "CRecorder" =>
                  /\ calls[c].stats = calls[c].stats_
                  /\ calls[c].ret = "OK" => calls[c].stats = ServerSummary
            /\ kind = "CGetOneFeature" =>
                  /\ calls[c].ret = calls[c].result
                  /\ calls[c].ret = "true" <=>
                        (calls[c].srvStatus = "OK" /\ calls[c].feature.has_location)
            /\ kind = "CSayHello" =>
                  calls[c].ret = IF calls[c].srvStatus = "OK"
                                 THEN calls[c].reply.message ELSE "RPC failed"

\* The Await of a client Recorder has returned OK with the response record.
C20_Witness ==
    \E c \in Calls :
        /\ kind = "CRecorder"
        /\ calls[c].await = "returned"
        /\ calls[c].ret = "OK" /\ calls[c].stats = ServerSummary
        /\ calls[c].holdsAtStatus = 1

\* C21: once a reactor has handled an OnWriteDone with ok = false, it starts no
\* further write on that Call.
C21_NoWriteAfterFailedWrite ==
    \A c \in Calls : "write_after_failed_write" \notin calls[c].viol

\* The operations of a Call that its reactor has started and the transport has not
\* yet completed, and the calls that end its writes.
Issued(s) == << s.rd, s.wr, s.wd, s.writesDone, s.fin, s.removeHolds, s.alarm >>

\* C22: a reactor that has handled OnReadDone(false) starts no further read on that
\* Call; the server Recorder and Chatter call Finish(OK) in that reaction; the client
\* Reader and Chatter start nothing in it.
C22_NoReadAfterFailedRead ==
    /\ [](\A c \in Calls :
            /\ "read_after_failed_read" \notin calls[c].viol
            /\ calls[c].rfailed => calls[c].rd = 0
            /\ (kind \in {"SRecorder", "SChatter"} /\ calls[c].rfailed) =>
                  calls[c].fin = 1 /\ calls[c].srvStatus = "OK")
    /\ [][\A c \in Calls :
             (~calls[c].rfailed /\ calls'[c].rfailed) =>
                 /\ kind \in {"SRecorder", "SChatter"} =>
                       calls[c].fin = 0 /\ calls'[c].fin = 1
                 /\ kind \in {"CReader", "CChatter"} =>
                       Issued(calls'[c]) = [Issued(calls[c]) EXCEPT ![1] = 0]]_vars

\* The read of a client Chatter has failed while its third note is being written.
C22_Witness ==
    \E c \in Calls :
        /\ kind = "CChatter"
        /\ calls[c].rfailed /\ calls[c].nread >= 1
        /\ calls[c].wr = 1 /\ calls[c].notes_iterator_ = 4

\* The writes an initiator has still to start: points of the client Recorder, notes
\* of the client Chatter.
WritesLeft(s) ==
    IF kind = "CRecorder" THEN s.points_remaining_
    ELSE Len(ClientNotes) + 1 - s.notes_iterator_

\* C23: on a Call of the client Recorder or Chatter StartWritesDone is called once,
\* when the last write (tenth point, fourth note) has completed, with ok true or
\* false, and no write is started after it.
C23_WritesDoneOnceAfterLastWrite ==
    /\ [](\A c \in Calls :
            kind \in {"CRecorder", "CChatter"} =>
              /\ calls[c].writesDone <= 1
              /\ calls[c].viol \cap {"two_writes_done", "writes_done_during_write",
                                     "write_after_writes_done"} = {}
              /\ calls[c].writesDone = 1 => calls[c].wr = 0 /\ WritesLeft(calls[c]) = 0
              /\ calls[c].phase = "done" => calls[c].writesDone = 1)
    /\ [][\A c \in Calls :
             (kind \in {"CRecorder", "CChatter"}
                /\ calls'[c].writesDone # calls[c].writesDone) =>
                 /\ calls[c].writesDone = 0
                 /\ WritesLeft(calls[c]) = 0
                 /\ calls'[c].wr = 0]_vars

\* A client Chatter has ended its writes and its Call is over, one of the writes
\* having completed with ok = false.
C23_Witness ==
    \E c \in Calls :
        /\ kind = "CChatter"
        /\ calls[c].phase = "done"
        /\ calls[c].writesDone = 1
        /\ calls[c].wfailed

\* C24: the handler of an inbound streaming call builds a reactor of its own for
\* the call; its constructor starts one operation (StartRead for the Recorder and
\* the Chatter, StartWrite or Finish for the Lister); no reaction of the reactor
\* runs before the handler has returned it.
C24_FreshReactorOneFirstOperation ==
    /\ [](\A c \in Calls :
            (kind \in {"Lister", "SRecorder", "SChatter"} /\ calls[c].phase = "new") =>
                calls[c] = NewCall)
    /\ [][\A c \in Calls :
             /\ (kind \in {"Lister", "SRecorder", "SChatter"}
                   /\ calls[c].phase = "new" /\ calls'[c].phase # "new") =>
                    /\ calls'[c].phase = "active"
                    /\ calls'[c].viol = {}
                    /\ kind \in {"SRecorder", "SChatter"} =>
                          Issued(calls'[c]) = << 1, 0, 0, 0, 0, 0, 0 >>
                    /\ kind = "Lister" =>
                          /\ calls'[c].rd = 0
                          /\ calls'[c].wr + calls'[c].fin = 1
                          /\ calls'[c].wr = Len(calls'[c].sent)
             /\ \A d \in Calls \ {c} :
                    calls'[c] = calls[c] \/ calls'[d] = calls[d]]_vars

\* The reactor of the first RouteChat call has read a note and has a write
\* outstanding while the second call has not arrived.
C24_Witness ==
    /\ kind = "SChatter"
    /\ calls[1].phase = "active" /\ calls[1].nread >= 1 /\ calls[1].wr = 1
    /\ calls[2].phase = "new"

Reactions(s) == s.rdone + s.wdone + s.ndone

\* C26: no reaction waits or sleeps. OnWriteDone of the client Recorder returns
\* after setting the alarm, and the next point is written when the alarm fires;
\* the wait on the condition variable is a step of the thread that calls Await, in
\* which no reaction runs.
C26_ReactionsDoNotBlock ==
    [][\A c \in Calls :
         /\ (kind = "CRecorder" /\ calls'[c].wdone # calls[c].wdone) =>
                /\ calls'[c].alarm = calls[c].alarm + 1
                /\ calls'[c].wstart = calls[c].wstart
                /\ calls'[c].writesDone = calls[c].writesDone
                /\ calls'[c].points_remaining_ = calls[c].points_remaining_
         /\ (kind = "CRecorder" /\ calls'[c].wstart # calls[c].wstart
                /\ calls[c].phase # "new") =>
                calls'[c].alarm = calls[c].alarm - 1
         /\ calls'[c].await # calls[c].await =>
                Reactions(calls'[c]) = Reactions(calls[c])
         /\ Reactions(calls'[c]) # Reactions(calls[c]) =>
                calls'[c].await = calls[c].await]_vars

\* The thread of RecordRoute waits in Await while OnWriteDone has set the alarm for
\* the third point.
C26_Witness ==
    \E c \in Calls :
        /\ kind = "CRecorder"
        /\ calls[c].await = "waiting"
        /\ calls[c].alarm = 1
        /\ calls[c].wdone = 2

Headers ==
    << "-------------- GetFeature --------------",
       "-------------- ListFeatures --------------",
       "-------------- RecordRoute --------------",
       "-------------- RouteChat --------------" >>

IsHeader(line) == \E i \in 1..Len(Headers) : Headers[i] = line

FailureLines ==
    {"GetFeature rpc failed.", "ListFeatures rpc failed.", "RecordRoute rpc failed.",
     "RouteChat rpc failed."}

IsFailureLine(line) == line \in FailureLines

\* C27: an RPC that ends with a non-OK status gives that status to the caller of
\* the facade; the caller prints one failure line for it; main goes on through
\* GetFeature, ListFeatures, RecordRoute and RouteChat in this order and returns 0.
C27_FailedRpcIsLoggedAndMainGoesOn ==
    \A c \in Calls :
        /\ (kind \in Kinds /\ calls[c].await = "returned"
               /\ calls[c].srvStatus # "OK") => calls[c].ret = calls[c].srvStatus
        /\ kind = "CMain" =>
              /\ calls[c].exit \in {Running, 0}
              /\ SelectSeq(calls[c].out, IsHeader)
                    = SubSeq(Headers, 1, Min(calls[c].step, Len(Headers)))
              /\ Len(SelectSeq(calls[c].out, IsFailureLine)) = calls[c].failures
              /\ calls[c].step = 5 <=> calls[c].exit = 0

\* main has returned 0 after all four RPCs, GetFeature and RecordRoute having failed.
C27_Witness ==
    \E c \in Calls :
        /\ kind = "CMain"
        /\ calls[c].exit = 0
        /\ calls[c].failures = 2
        /\ SelectSeq(calls[c].out, IsFailureLine)
              = << "GetFeature rpc failed.", "RecordRoute rpc failed." >>

\* The notes of session c in the log, in log order.
OfSession(c) == SelectSeq(received_notes_, LAMBDA n : n.message[1] = c)

\* C28: the k-th write of the client Chatter carries its k-th note (First, Second,
\* Third, Fourth); the server appends the notes of a session to the log in the
\* order it read them; and everything it forwards for inbound note k is written
\* before that note is appended and before inbound note k+1 is handled.
C28_NotesInIssueOrder ==
    \A c \in Calls :
        /\ kind = "CChatter" =>
              /\ calls[c].wstart = calls[c].notes_iterator_ - 1
              /\ calls[c].wr > 0 => calls[c].wmsg = ClientNotes[calls[c].wstart]
        /\ kind = "SChatter" =>
              /\ OfSession(c) = SubSeq(calls[c].inbound, 1, calls[c].appended)
              /\ \A k \in 1..Len(calls[c].inbound) : calls[c].inbound[k].message = << c, k >>
              /\ Len(calls[c].inbound) <= calls[c].appended + 1
              /\ \A k \in 1..calls[c].appended :
                    Batch(calls[c], k) = Snapshots(calls[c], k)

\* A session has appended its three notes, the third after forwarding three notes
\* for it.
C28_Witness ==
    \E c \in Calls :
        /\ kind = "SChatter"
        /\ calls[c].appended = 3
        /\ Len(Batch(calls[c], 3)) = 3

\* The object a reactor passed to the StartWrite that is outstanding holds the
\* message the transport is sending.
WriteBufferIntact(s) ==
    IF kind = "Lister"
    THEN s.next_feature_ - 1 \in 1..Len(feature_list_)
         /\ feature_list_[s.next_feature_ - 1] = s.wmsg
    ELSE IF kind = "SChatter"
    THEN s.notes_iterator_ - 1 \in 1..Len(s.to_send_notes_)
         /\ s.to_send_notes_[s.notes_iterator_ - 1] = s.wmsg
    ELSE IF kind = "CChatter"
    THEN s.notes_iterator_ - 1 \in 1..Len(ClientNotes)
         /\ ClientNotes[s.notes_iterator_ - 1] = s.wmsg
    ELSE IF kind = "CRecorder"
    THEN \E i \in 1..Len(feature_list_) : feature_list_[i].location = s.wmsg
    ELSE TRUE

\* C29: while a write is outstanding the object passed to StartWrite and its
\* container are as they were when the write was started, and while a read is
\* outstanding no reaction stores into the object passed to StartRead.
C29_BuffersOfOutstandingOperationsUntouched ==
    /\ [](\A c \in Calls : calls[c].wr > 0 => WriteBufferIntact(calls[c]))
    /\ [][\A c \in Calls :
             /\ (calls[c].wr > 0 /\ calls'[c].wdone = calls[c].wdone) =>
                    /\ calls'[c].wmsg = calls[c].wmsg
                    /\ calls'[c].to_send_notes_ = calls[c].to_send_notes_
                    /\ feature_list_' = feature_list_
             /\ (calls[c].rd > 0 /\ calls'[c].rdone = calls[c].rdone) =>
                    /\ calls'[c].note_ = calls[c].note_
                    /\ calls'[c].point_ = calls[c].point_
                    /\ calls'[c].feature = calls[c].feature]_vars

\* A server Chatter is writing the second of the three notes of to_send_notes_.
C29_Witness ==
    \E c \in Calls :
        /\ kind = "SChatter"
        /\ calls[c].wr = 1
        /\ Len(calls[c].to_send_notes_) = 3
        /\ calls[c].notes_iterator_ = 3

\* The options of the help text that are followed by a value.
TakesValue ==
    {"-t", "--target", "--server_address", "--server_ip", "--server_port",
     "--maintenance_address", "--maintenance_ip", "--maintenance_port",
     "--mode", "-m", "--database", "-db"}

RECURSIVE LastValue(_, _, _, _)
\* << the value given to the last option of opts on the command line >>, or v when
\* none of them was given.
LastValue(args, i, opts, v) ==
    IF i > Len(args) THEN v
    ELSE IF args[i] \in TakesValue
    THEN IF i = Len(args) THEN v
         ELSE LastValue(args, i + 2, opts, IF args[i] \in opts THEN << args[i + 1] >> ELSE v)
    ELSE LastValue(args, i + 1, opts, v)

\* C30: after ParseCommandLine has returned SUCCESS, server_address is the value
\* given to -t / --target / --server_address if one was given; otherwise
\* server_ip:server_port if --server_ip or --server_port was given; otherwise the
\* default 0.0.0.0:50051.
C30_ServerAddress ==
    \A c \in Calls :
        (kind = "CLI" /\ calls[c].cliState = "SUCCESS") =>
            LET target == LastValue(calls[c].argv, 1,
                                    {"-t", "--target", "--server_address"}, << >>)
                ip == LastValue(calls[c].argv, 1, {"--server_ip"}, << >>)
                port == LastValue(calls[c].argv, 1, {"--server_port"}, << >>)
            IN  calls[c].cli_params.server_address =
                  IF target # << >> THEN target[1]
                  ELSE IF ip # << >> \/ port # << >>
                  THEN (IF ip # << >> THEN ip[1] ELSE "0.0.0.0") \o ":"
                       \o ToString(IF port # << >> THEN Atoi(port[1])
                                   ELSE DefaultServerPort)
                  ELSE "0.0.0.0:50051"

RECURSIVE ModeGiven(_, _, _)
\* The modes the options of the command line ask for, the last option deciding:
\* --mode / -m with server or client, -s, -c; both modes when --mode was given
\* some other word.
ModeGiven(args, i, m) ==
    IF i > Len(args) THEN m
    ELSE IF args[i] \in {"--mode", "-m"} /\ i < Len(args)
    THEN ModeGiven(args, i + 2,
                   IF args[i + 1] = "server" THEN {"SERVER"}
                   ELSE IF args[i + 1] = "client" THEN {"CLIENT"}
                   ELSE {"SERVER", "CLIENT"})
    ELSE IF args[i] \in TakesValue THEN ModeGiven(args, i + 2, m)
    ELSE IF args[i] = "-s" THEN ModeGiven(args, i + 1, {"SERVER"})
    ELSE IF args[i] = "-c" THEN ModeGiven(args, i + 1, {"CLIENT"})
    ELSE ModeGiven(args, i + 1, m)

\* C31: after ParseCommandLine has returned SUCCESS the mode is SERVER when the
\* last mode option was --mode server, -m server or -s, and CLIENT when it was
\* --mode client, -m client or -c.
C31_ModeOptions ==
    \A c \in Calls :
        (kind = "CLI" /\ calls[c].cliState = "SUCCESS") =>
            calls[c].cli_params.mode \in ModeGiven(calls[c].argv, 1, {"CLIENT"})

\* The words ParseCommandLine knows as options.
KnownOptions ==
    TakesValue \cup {"--help", "-h", "-s", "-c", "--secure"}

RECURSIVE Verdict(_, _)
\* What the command line asks for, read from the left: "help" at --help / -h,
\* "error" at an option that lacks its value or at an unknown word, "run" otherwise.
Verdict(args, i) ==
    IF i > Len(args) THEN "run"
    ELSE IF args[i] \in {"--help", "-h"} THEN "help"
    ELSE IF args[i] \notin KnownOptions THEN "error"
    ELSE IF args[i] \in TakesValue
    THEN IF i = Len(args) THEN "error" ELSE Verdict(args, i + 2)
    ELSE Verdict(args, i + 1)

\* C32: for a command line whose last word is an option that needs a value, or that
\* holds an unknown word, ParseCommandLine returns ERROR and main returns 1 without
\* starting a client or a server; for --help it returns SHOW_HELP and main returns 0.
C32_ErrorAndHelpExitCodes ==
    \A c \in Calls :
        (kind = "CLI" /\ calls[c].cliState # "none") =>
            /\ Verdict(calls[c].argv, 1) = "error" =>
                  /\ calls[c].cliState = "ERROR"
                  /\ calls[c].exit \in {Running, 1}
                  /\ calls[c].step = 0
            /\ Verdict(calls[c].argv, 1) = "help" =>
                  /\ calls[c].cliState = "SHOW_HELP"
                  /\ calls[c].exit \in {Running, 0}
                  /\ calls[c].step = 0

\* C33: a note that a server Chatter has read is appended to the log once, when the
\* last write of its batch has completed and before the next read is started, and
\* after the snapshot: what is forwarded while the note is handled does not
\* contain the note.
C33_AppendOnceAfterBatch ==
    /\ [](kind = "SChatter" =>
            \A c \in Calls :
                /\ calls[c].appended <= Len(calls[c].inbound)
                /\ Len(calls[c].inbound) <= calls[c].appended + 1
                /\ calls[c].phase = "done" => calls[c].appended = Len(calls[c].inbound)
                /\ \A k \in 1..Len(calls[c].inbound) :
                      /\ Count(received_notes_, calls[c].inbound[k])
                            = IF k <= calls[c].appended THEN 1 ELSE 0
                      /\ k <= Len(calls[c].snapLen) =>
                            calls[c].inbound[k] \notin Range(Batch(calls[c], k))
                      /\ k <= calls[c].appended =>
                            calls[c].snapLen[k] < LogIndex(c, k, 1)
                /\ calls[c].appended < Len(calls[c].inbound) =>
                      /\ calls[c].rd = 0
                      /\ calls[c].note_ \notin Range(calls[c].to_send_notes_))
    /\ [][kind = "SChatter" =>
            \A c \in Calls :
                calls'[c].appended # calls[c].appended =>
                    /\ calls'[c].appended = calls[c].appended + 1
                    /\ received_notes_' = Append(received_notes_, calls[c].note_)
                    /\ calls[c].wr = 0 /\ calls[c].wdone = calls[c].wstart
                    /\ calls[c].notes_iterator_ = Len(calls[c].to_send_notes_) + 1
                    /\ calls[c].rd = 0 /\ calls'[c].rd = 1]_vars

\* A session is over with two notes appended, the second after its batch, which
\* returned the session's first note to it.
C33_Witness ==
    \E c \in Calls :
        /\ kind = "SChatter"
        /\ calls[c].phase = "done"
        /\ calls[c].appended = 2
        /\ Batch(calls[c], 2) = << calls[c].inbound[1] >>

CallStatus == << "CREATE", "PROCESS", "FINISH" >>

\* C34: the Proceed calls on a CallData find it in CREATE, PROCESS, FINISH in this
\* order, each moving it one step; the third deletes it, nothing else does, and
\* no Proceed runs on it afterwards, nor is one due.
C34_CallDataLifeCycle ==
    \A tag \in 1..Len(callData) :
        LET this == callData[tag] IN
        /\ IsPrefix(this.trace, CallStatus)
        /\ Len(this.trace) >= 1
        /\ this.status_ = CallStatus[Min(Len(this.trace) + 1, Len(CallStatus))]
        /\ this.deleted = IF Len(this.trace) = Len(CallStatus) THEN 1 ELSE 0
        /\ ~this.misuse
        /\ this.deleted > 0 =>
              /\ this.op = "none"
              /\ \A e \in cq_ : e.tag # tag

\* The first CallData has been deleted by its third Proceed while the second is
\* replying and the third waits for a request.
C34_Witness ==
    /\ Len(callData) = 3
    /\ callData[1].deleted = 1 /\ callData[1].trace = CallStatus
    /\ callData[2].status_ = "FINISH" /\ callData[2].deleted = 0
    /\ callData[3].status_ = "PROCESS"

\* The CallData objects whose status_ is PROCESS.
InProcess == { tag \in 1..Len(callData) :
                 callData[tag].deleted = 0 /\ callData[tag].status_ = "PROCESS" }

C36_ReadXorWrite ==
    /\ [](kind = "SChatter" => \A c \in Calls : calls[c].rd + calls[c].wr <= 1)
    /\ [][kind = "SChatter" =>
            \A c \in Calls :
                /\ calls'[c].rstart # calls[c].rstart =>
                      /\ calls[c].wr = 0 /\ calls'[c].wr = 0
                      /\ calls[c].wdone = calls[c].wstart
                      /\ \/ calls[c].phase = "new"
                         \/ calls[c].notes_iterator_ = Len(calls[c].to_send_notes_) + 1
                /\ calls'[c].wstart # calls[c].wstart =>
                      /\ calls[c].rd = 0 /\ calls'[c].rd = 0
                      /\ calls[c].rdone = calls[c].rstart
                      /\ ~calls[c].rfailed
                      /\ Len(calls[c].inbound) = calls[c].appended + 1]_vars

\* A server Chatter writes the first note of a batch of two; no read is outstanding.
C36_Witness ==
    \E c \in Calls :
        /\ kind = "SChatter"
        /\ calls[c].wr = 1 /\ calls[c].rd = 0
        /\ calls[c].notes_iterator_ = 2
        /\ Len(calls[c].to_send_notes_) >= 2

\* One turn of the loop of the blocking RouteChat for the note read: with mu_ held,
\* the entries of the log at the note's location are written, then the note is
\* pushed to the log.
Blocking_RouteChat_Turn(o, c, note) ==
    [ sent |-> [o.sent EXCEPT ![c] = @ \o SelectSeq(o.log, LAMBDA n : SameLocation(n, note))],
      log  |-> Append(o.log, note),
      pos  |-> [o.pos EXCEPT ![c] = @ + 1] ]

\* The blocking handlers run by a schedule: sched[k] is the session whose turn
\* holds mu_ k-th; in[c] are the notes session c reads.
RECURSIVE Blocking_RouteChat(_, _, _, _)
Blocking_RouteChat(sched, in, k, o) ==
    IF k > Len(sched) THEN [sent |-> o.sent, log |-> o.log]
    ELSE Blocking_RouteChat(sched, in, k + 1,
             Blocking_RouteChat_Turn(o, sched[k], in[sched[k]][o.pos[sched[k]] + 1]))

RECURSIVE NotesOf(_, _)
NotesOf(in, S) ==
    IF S = {} THEN 0
    ELSE LET c == CHOOSE x \in S : TRUE IN Len(in[c]) + NotesOf(in, S \ {c})

Schedules(in) ==
    { sched \in [1..NotesOf(in, Calls) -> Calls] :
        \A c \in Calls : Cardinality({ k \in DOMAIN sched : sched[k] = c }) = Len(in[c]) }

Blocking_Outcomes(in) ==
    { Blocking_RouteChat(sched, in, 1,
          [ sent |-> [c \in Calls |-> << >>], log |-> << >>, pos |-> [c \in Calls |-> 0] ])
      : sched \in Schedules(in) }

\* Every note read by a server Chatter has been handled to its end.
SChatter_Quiescent ==
    \A c \in Calls :
        /\ calls[c].appended = Len(calls[c].inbound)
        /\ calls[c].wr = 0
        /\ calls[c].pc = "run"

\* C37: what the callback RouteChat server has forwarded to each session and its
\* log, once every note read is handled, is an outcome of the blocking RouteChat
\* server on the same inbound notes under some order of its critical sections.
C37_CallbackRefinesBlocking ==
    kind = "SChatter" /\ SChatter_Quiescent =>
        [ sent |-> [c \in Calls |-> calls[c].sent], log |-> received_notes_ ]
            \in Blocking_Outcomes([c \in Calls |-> calls[c].inbound])

\* The order values the Greeter service has replied with.
Orders ==
    UNION { { calls[c].replies[k].order : k \in DOMAIN calls[c].replies } : c \in Calls }

\* C38: the order values of the replies of one Greeter service are distinct, and
\* after K handled calls they are exactly 1..K.
C38_OrdersDistinct ==
    kind = "Greeter" => Orders = 1..Handled(Calls)

\* C40: once the completion reaction of a facade has set the flag and notified,
\* be it before the caller enters the wait or while the caller waits, the wait
\* returns.
C40_NoLostWakeup ==
    \A c \in Calls :
        (kind \in FacadeKinds /\ calls[c].done_) ~> (calls[c].await = "returned")

\* An Await has returned although OnDone ran before the caller entered it.
C40_Witness ==
    \E c \in Calls :
        /\ kind \in FacadeKinds
        /\ calls[c].awaitAtDone = "idle"
        /\ calls[c].await = "returned"

\* The streaming RPCs of the callback client and server.
StreamingKinds == Kinds \ {"GetFeature"}

\* The transport has failed the call: it was cancelled at the server, a write of
\* the client failed, or the status that reached the client is not OK.
TransportFailed(s) ==
    IF kind \in ServerKinds
    THEN s.cancelled
    ELSE s.wfailed \/ (s.ended /\ s.srvStatus # "OK")

\* The call has come to its end on this side: the server has called Finish(OK)
\* and had its OnDone; the client has ended its writes, had its OnDone, and its
\* Await has returned OK.
Terminated(s) ==
    IF kind \in ServerKinds
    THEN s.fin = 1 /\ s.srvStatus = "OK" /\ s.phase = "done" /\ s.ndone = 1
    ELSE /\ s.phase = "done" /\ s.ndone = 1
         /\ kind \in {"CRecorder", "CChatter"} => s.writesDone = 1
         /\ s.await = "returned" /\ s.ret = "OK"

\* C39: with completions and alarms delivered fairly, each streaming RPC whose
\* transport does not fail terminates: the server calls Finish(OK), both sides have
\* their OnDone, and the Await of the client returns OK.
C39_StreamingRpcTerminates ==
    \A c \in Calls :
        (kind \in StreamingKinds /\ calls[c].phase = "active")
            ~> (TransportFailed(calls[c]) \/ Terminated(calls[c]))

\* A client Chatter whose transport never failed: all notes written, the writes
\* ended, OnDone delivered and Await returned OK.
C39_Witness ==
    \E c \in Calls :
        /\ kind = "CChatter"
        /\ ~TransportFailed(calls[c]) /\ Terminated(calls[c])
        /\ calls[c].wdone = Len(ClientNotes)

====
